---- MODULE Spec2Model ----
(***************************************************************************)
(* Verification model of BLIP-Cpp: the GCD actor mailbox                   *)
(* (src/util/GCDMailbox.cc), outgoing messages (src/blip/MessageOut.cc),   *)
(* the Async/AsyncProvider futures (src/util/Async.hh), the Batcher        *)
(* (src/util/Batcher.hh) and the loopback WebSocket                        *)
(* (include/blip_cpp/LoopbackProvider.hh).                                 *)
(*                                                                         *)
(* Each component has its own specifications (SpecMailbox, SpecMessageOut, *)
(* SpecAsync, SpecBatcher, SpecLoopback, ...); the variables of the other  *)
(* components stay at their initial value.                                 *)
(***************************************************************************)
EXTENDS Integers, Sequences, FiniteSets, TLC

VARIABLES
    \* ---- GCDMailbox ----
    thunks,       \* every wrappedBlock created so far, indexed by creation order
    queue,        \* per mailbox: the blocks waiting on its dispatch queue (FIFO)
    eventCount,   \* per mailbox: GCDMailbox::_eventCount
    retains,      \* per mailbox: the retains of _actor its wrappedBlocks hold
    sCurrentManifest, \* per thread: GCDMailbox::sCurrentManifest (0: null)
    manifests,    \* the ChannelManifest each wrappedBlock's enqueue made, by block number
    \* ---- MessageOut ----
    mo,           \* the MessageOut: flags, number, counters, progress callback
    ct,           \* its Contents: payload, data source, pull buffer
    src,          \* the data source behind the MessageDataSource callback
    io,           \* the multiplexer's side: where the message is held, acks received
    frames,       \* the frames nextFrameToSend has produced so far
    sentData,     \* the content bytes handed to the codec so far, as offset ranges
    progress,     \* the MessageProgress notifications emitted so far
    response,     \* what createResponse returned
    \* ---- Async ----
    prov,         \* every AsyncProviderBase: _ready, _observer, _actor, _state
    stack,        \* per thread / running thunk: the calls it is in the middle of
    resumes,      \* every resumption of an async function so far
    todo,         \* what the application has not called yet
    \* ---- Batcher ----
    bt,           \* the Batcher: _items, _scheduled, time since _popTime, its parameters
    pushed,       \* every item given to push so far, in call order
    pops,         \* what every call of pop so far returned
    \* ---- LoopbackWebSocket ----
    ws,           \* per socket: delegate, _peer, _isOpen, _readyToUse, _bufferedBytes
    sends,        \* every call of send so far, in call order, and what it returned
    inbox,        \* per socket: the messages its delegate was given, in order
    net,          \* the provider's latency and what the delegates were told
    calls,        \* per socket: the method calls waiting in its mailbox (FIFO)
    timers,       \* the calls dispatch_after holds, with the time each has left
    \* ---- ChannelManifest ----
    cm,           \* a ChannelManifest: its two lists, _limit, the truncation counters
    cmLog         \* every entry given to it so far, per list, and the last call made

mailboxVars == <<thunks, queue, eventCount, retains, sCurrentManifest, manifests>>

messageVars == <<mo, ct, src, io, frames, sentData, progress, response>>

asyncVars == <<prov, stack, resumes, todo>>

batcherVars == <<bt, pushed, pops>>

loopbackVars == <<ws, sends, inbox, net, calls, timers>>

manifestVars == <<cm, cmLog>>

vars == <<thunks, queue, eventCount, retains, sCurrentManifest, manifests,
          mo, ct, src, io, frames, sentData, progress, response,
          prov, stack, resumes, todo,
          bt, pushed, pops,
          ws, sends, inbox, net, calls, timers, cm, cmLog>>

(***************************************************************************)
(*                            ChannelManifest                              *)
(***************************************************************************)

\* Bound of the manifest model: calls of addEnqueueCall, and of addExecution.
MaxManifestCalls == 4

\* uint8_t _limit {100}
kDefaultLimit == 100

\* The limits setLimit is called with.
ManifestLimits == {0, 1, 2}

\* The method names recorded, and the delays addEnqueueCall is told.
ManifestNames == {"m"}
ManifestDelays == {0, 1}

\* A ChannelManifest as its constructor leaves it.
NewChannelManifest ==
    [enqueueCalls |-> <<>>, executions |-> <<>>, limit |-> kDefaultLimit,
     truncatedEnqueue |-> 0, truncatedExecution |-> 0]

\* The name addEnqueueCall records: name, or name + " [after <after> secs]"
\* when after is not zero.
ActualName(name, after) == [name |-> name, after |-> after]

\* ChannelManifestEntry { elapsed, name }
ChannelManifestEntry(elapsed, name) == [elapsed |-> elapsed, name |-> name]

\* while (list.size() > _limit) { list.pop_front(); truncated++; }: how many
\* entries that drops from the front.
Dropped(list, limit) == IF Len(list) > limit THEN Len(list) - limit ELSE 0

DropFront(list, n) == SubSeq(list, n + 1, Len(list))

\* ChannelManifest::addEnqueueCall(name, after)
AddEnqueueCall(m, elapsed, name, after) ==
    LET list == Append(m.enqueueCalls, ChannelManifestEntry(elapsed, ActualName(name, after)))
        n == Dropped(list, m.limit)
    IN [m EXCEPT !.enqueueCalls = DropFront(list, n),
                 !.truncatedEnqueue = @ + n]

\* ChannelManifest::addExecution(name)
AddExecution(m, elapsed, name) ==
    LET list == Append(m.executions, ChannelManifestEntry(elapsed, ActualName(name, 0)))
        n == Dropped(list, m.limit)
    IN [m EXCEPT !.executions = DropFront(list, n),
                 !.truncatedExecution = @ + n]

\* ChannelManifest::setLimit(limit)
SetLimit(m, limit) == [m EXCEPT !.limit = limit]

\* now - _start, counted in calls made so far: the clock never goes back.
Elapsed == Len(cmLog.enqueueCalls) + Len(cmLog.executions)

\* Some thread calls addEnqueueCall on the manifest.
CallAddEnqueueCall(name, after) ==
    /\ Len(cmLog.enqueueCalls) < MaxManifestCalls
    /\ cm' = AddEnqueueCall(cm, Elapsed, name, after)
    /\ cmLog' = [cmLog EXCEPT
                   !.enqueueCalls = Append(@, ChannelManifestEntry(Elapsed, ActualName(name, after))),
                   !.last = "addEnqueueCall"]

\* Some thread calls addExecution on the manifest.
CallAddExecution(name) ==
    /\ Len(cmLog.executions) < MaxManifestCalls
    /\ cm' = AddExecution(cm, Elapsed, name)
    /\ cmLog' = [cmLog EXCEPT
                   !.executions = Append(@, ChannelManifestEntry(Elapsed, ActualName(name, 0))),
                   !.last = "addExecution"]

\* Some thread calls setLimit on the manifest.
CallSetLimit(limit) ==
    /\ cm' = SetLimit(cm, limit)
    /\ cmLog' = [cmLog EXCEPT !.last = "setLimit"]

InitManifest ==
    /\ cm = NewChannelManifest
    /\ cmLog = [enqueueCalls |-> <<>>, executions |-> <<>>, last |-> "none"]

\* What the manifest operations leave alone.
notManifestVars == <<mailboxVars, messageVars, asyncVars, batcherVars, loopbackVars>>

NextManifest ==
    \/ \E name \in ManifestNames, after \in ManifestDelays :
         CallAddEnqueueCall(name, after) /\ UNCHANGED notManifestVars
    \/ \E name \in ManifestNames : CallAddExecution(name) /\ UNCHANGED notManifestVars
    \/ \E limit \in ManifestLimits : CallSetLimit(limit) /\ UNCHANGED notManifestVars

(***************************************************************************)
(*                              GCDMailbox                                 *)
(***************************************************************************)

\* Bounds of the mailbox model.
MaxThunks == 2

\* The delays enqueueAfter is called with, in time units.
Delays == {-1, 0, 1}

\* Three mailboxes: "child" was constructed with parentMailbox = "parent",
\* "other" and "parent" target the global concurrent queue.
Mailboxes == {"parent", "child", "other"}

\* GCDMailbox::GCDMailbox: targetQueue = parentMailbox->_queue, or the global queue.
ParentMailbox(m) == IF m = "child" THEN "parent" ELSE "none"

\* The serial queue at the top of the target chain of m's queue.
RECURSIVE RootQueue(_)
RootQueue(m) == IF ParentMailbox(m) = "none" THEN m ELSE RootQueue(ParentMailbox(m))

\* Threads outside any mailbox that call enqueue / enqueueAfter.
Threads == {"t1", "t2"}

ThunkIds == 1..Len(thunks)

Running == {i \in ThunkIds : thunks[i].st = "running"}

\* A caller is an outside thread (thunk = 0) or the worker thread that is
\* running thunk i (thread = "worker").
ThreadCaller(t) == [thread |-> t, thunk |-> 0]
ThunkCaller(i) == [thread |-> "worker", thunk |-> i]
Callers == {ThreadCaller(t) : t \in Threads} \cup {ThunkCaller(i) : i \in Running}

\* GCDMailbox::currentActor on the calling thread: the mailbox whose queue the
\* thread is draining, or "none".
CurrentMailbox(c) == IF c.thunk = 0 THEN "none" ELSE thunks[c.thunk].mb

\* The thread that runs the blocks of mailbox m. A serial queue runs its
\* blocks one after the other, each from start to end on one thread of the
\* pool: the model gives every root queue a thread of its own.
WorkerThread(m) == RootQueue(m)

AllThreads == Threads \cup {WorkerThread(m) : m \in Mailboxes}

\* The thread a caller is.
ThreadOf(c) == IF c.thunk = 0 THEN c.thread ELSE WorkerThread(thunks[c.thunk].mb)

\* sCurrentManifest of the calling thread (thread_local), 0 for null.
CurrentManifest(c) == sCurrentManifest[ThreadOf(c)]

\* dispatch_async(_queue, wrappedBlock): a serial queue keeps submission order.
DispatchAsync(q, m, id) == [q EXCEPT ![m] = Append(@, id)]

\* The wrappedBlock built by enqueue / enqueueAfter. `wait` is the time left
\* until dispatch_after submits it (0 for a block submitted at once), `delay`
\* the time dispatch_after was asked for, `age` the time that has passed since
\* the call while the block had not started, `dumped` the manifest that was
\* dumped when the block threw (0: none).
WrappedBlock(c, m, kind, wait, block, id) ==
    [mb |-> m, caller |-> c, kind |-> kind, wait |-> wait, block |-> block,
     manifest |-> IF CurrentManifest(c) # 0 THEN CurrentManifest(c) ELSE id,
     delay |-> wait, age |-> 0, dumped |-> 0,
     st |-> IF wait > 0 THEN "timer" ELSE "queued"]

\* currentManifest->addEnqueueCall(methodName, delay): the manifest is the one
\* the new wrappedBlock captures, made by make_shared when it is a new one.
\* The entry carries the block's number where the code puts the time.
RecordEnqueue(wb, id, after) ==
    [Append(manifests, NewChannelManifest) EXCEPT
        ![wb.manifest] = AddEnqueueCall(@, id, wb.block, after)]

\* retain(_actor), in enqueue and enqueueAfter.
Retain(refs, m) == [refs EXCEPT ![m] = @ + 1]

\* Mutant: the actor is released only when the block returned normally.
Release_NotAfterThrow(refs, m, threw) ==
    IF threw THEN refs ELSE [refs EXCEPT ![m] = @ - 1]

\* release(_actor), the last statement of afterEvent, which the wrappedBlock
\* calls after safelyCall whether or not the block threw.
Release(refs, m, threw) == [refs EXCEPT ![m] = @ - 1]

\* Mutant: enqueue from the mailbox's own thunk calls the block at once.
Enqueue_Inline(c, m, block) ==
    /\ LET id == Len(thunks) + 1 IN
        /\ eventCount' = [eventCount EXCEPT ![m] = @ + 1]
        /\ retains' = Retain(retains, m)
        /\ thunks' = Append(thunks, [WrappedBlock(c, m, "enqueue", 0, block, id)
                                       EXCEPT !.st = IF CurrentMailbox(c) = m
                                                       THEN "running" ELSE "queued"])
        /\ queue' = IF CurrentMailbox(c) = m THEN queue ELSE DispatchAsync(queue, m, id)
        /\ manifests' = RecordEnqueue(WrappedBlock(c, m, "enqueue", 0, block, id), id, 0)
        /\ UNCHANGED sCurrentManifest

\* GCDMailbox::enqueue(methodName, block)
Enqueue(c, m, block) ==
    /\ LET id == Len(thunks) + 1 IN
        /\ eventCount' = [eventCount EXCEPT ![m] = @ + 1]
        /\ retains' = Retain(retains, m)
        /\ thunks' = Append(thunks, WrappedBlock(c, m, "enqueue", 0, block, id))
        /\ manifests' = RecordEnqueue(WrappedBlock(c, m, "enqueue", 0, block, id), id, 0)
        /\ queue' = DispatchAsync(queue, m, id)
        /\ UNCHANGED sCurrentManifest

\* Mutant: the delay is ignored.
EnqueueAfter_NoDelay(c, m, d, block) ==
    /\ LET id == Len(thunks) + 1 IN
        /\ eventCount' = [eventCount EXCEPT ![m] = @ + 1]
        /\ retains' = Retain(retains, m)
        /\ thunks' = Append(thunks, [WrappedBlock(c, m, "after", 0, block, id)
                                       EXCEPT !.delay = IF d > 0 THEN d ELSE 0])
        /\ queue' = DispatchAsync(queue, m, id)
        /\ manifests' = RecordEnqueue(WrappedBlock(c, m, "after", 0, block, id), id, d)
        /\ UNCHANGED sCurrentManifest

\* GCDMailbox::enqueueAfter(delay, methodName, block)
EnqueueAfter(c, m, d, block) ==
    /\ LET id == Len(thunks) + 1 IN
        /\ eventCount' = [eventCount EXCEPT ![m] = @ + 1]
        /\ retains' = Retain(retains, m)
        /\ manifests' = RecordEnqueue(WrappedBlock(c, m, "after", 0, block, id), id, d)
        /\ UNCHANGED sCurrentManifest
        /\ IF d > 0
             THEN /\ thunks' = Append(thunks, WrappedBlock(c, m, "after", d, block, id))
                  /\ UNCHANGED queue
             ELSE /\ thunks' = Append(thunks, WrappedBlock(c, m, "after", 0, block, id))
                  /\ queue' = DispatchAsync(queue, m, id)

\* dispatch_after: once the time has come the block is submitted to the queue.
TimerFire(i) ==
    /\ thunks[i].st = "timer"
    /\ thunks[i].wait = 0
    /\ thunks' = [thunks EXCEPT ![i].st = "queued"]
    /\ queue' = DispatchAsync(queue, thunks[i].mb, i)
    /\ UNCHANGED <<eventCount, retains, sCurrentManifest, manifests>>

\* Mutant: the queue is created concurrent instead of DISPATCH_QUEUE_SERIAL.
QueueIdle_Concurrent(m) == TRUE

\* A serial dispatch queue runs one block at a time, and queues that target the
\* same serial queue share it.
QueueIdle(m) == \A i \in Running : RootQueue(thunks[i].mb) # RootQueue(m)

\* Mutant: the queue hands out the newest block first.
NextBlock_Lifo(m) == queue[m][Len(queue[m])]

\* The block a serial queue takes next: the oldest one submitted.
NextBlock(m) == Head(queue[m])

\* Mutant: the running block's manifest is not made the thread's.
BeginBlock_NoManifest(tls, m, i) == tls

\* sCurrentManifest = currentManifest, at the start of the wrappedBlock.
BeginBlock(tls, m, i) == [tls EXCEPT ![WorkerThread(m)] = thunks[i].manifest]

\* sCurrentManifest.reset(), at the end of the wrappedBlock.
EndBlock(tls, m) == [tls EXCEPT ![WorkerThread(m)] = 0]

\* The dispatch queue of mailbox m starts its next wrappedBlock, which
\* records its execution and sets the thread's manifest before the block
\* itself is called.
StartThunk(m) ==
    /\ queue[m] # <<>>
    /\ QueueIdle(m)
    /\ LET i == NextBlock(m) IN
        /\ thunks' = [thunks EXCEPT ![i].st = "running"]
        /\ queue' = [queue EXCEPT ![m] = SelectSeq(@, LAMBDA x : x # i)]
        /\ manifests' = [manifests EXCEPT
                           ![thunks[i].manifest] = AddExecution(@, i, thunks[i].block)]
        /\ sCurrentManifest' = BeginBlock(sCurrentManifest, m, i)
    /\ UNCHANGED <<eventCount, retains>>

\* GCDMailbox::afterEvent: --_eventCount
AfterEvent(m) == [eventCount EXCEPT ![m] = @ - 1]

\* Mutant: the exception leaves safelyCall, and the wrappedBlock with it.
SafelyCall_Uncaught(t, threw) ==
    IF threw THEN [t EXCEPT !.st = "escaped"] ELSE [t EXCEPT !.st = "done"]

\* GCDMailbox::safelyCall: a std::exception thrown by the block is caught,
\* _actor->caughtException(x) is called and sCurrentManifest is dumped.
SafelyCall(t, threw) ==
    IF threw THEN [t EXCEPT !.st = "caught",
                            !.dumped = sCurrentManifest[WorkerThread(t.mb)]]
    ELSE [t EXCEPT !.st = "done"]

\* The rest of the wrappedBlock: safelyCall(block) returns (the block returned,
\* or threw a std::exception that was caught), then afterEvent() and
\* sCurrentManifest.reset().
FinishThunk(i, threw) ==
    /\ thunks[i].st = "running"
    /\ thunks' = [thunks EXCEPT ![i] = SafelyCall(@, threw)]
    /\ eventCount' = AfterEvent(thunks[i].mb)
    /\ retains' = Release(retains, thunks[i].mb, threw)
    /\ sCurrentManifest' = EndBlock(sCurrentManifest, thunks[i].mb)
    /\ UNCHANGED <<queue, manifests>>

\* One unit of time passes for every block that dispatch_after still holds.
Tick ==
    /\ \E i \in ThunkIds : thunks[i].st = "timer" /\ thunks[i].wait > 0
    /\ thunks' = [i \in ThunkIds |->
                    IF thunks[i].st = "timer" /\ thunks[i].wait > 0
                      THEN [thunks[i] EXCEPT !.wait = @ - 1, !.age = @ + 1]
                      ELSE thunks[i]]
    /\ UNCHANGED <<queue, eventCount, retains, sCurrentManifest, manifests>>

InitMailbox ==
    /\ thunks = <<>>
    /\ queue = [m \in Mailboxes |-> <<>>]
    /\ eventCount = [m \in Mailboxes |-> 0]
    /\ retains = [m \in Mailboxes |-> 0]
    /\ sCurrentManifest = [t \in AllThreads |-> 0]
    /\ manifests = <<>>

\* What the mailbox operations leave alone.
notMailboxVars == <<messageVars, asyncVars, batcherVars, loopbackVars, manifestVars>>

\* Some thread, or a running thunk, calls enqueue.
CallEnqueue(c, m) ==
    /\ Len(thunks) < MaxThunks
    /\ Enqueue(c, m, "block")
    /\ UNCHANGED notMailboxVars

\* Some thread, or a running thunk, calls enqueueAfter.
CallEnqueueAfter(c, m, d) ==
    /\ Len(thunks) < MaxThunks
    /\ EnqueueAfter(c, m, d, "block")
    /\ UNCHANGED notMailboxVars

NextMailbox ==
    \/ \E c \in Callers, m \in Mailboxes : CallEnqueue(c, m)
    \/ \E c \in Callers, m \in Mailboxes, d \in Delays : CallEnqueueAfter(c, m, d)
    \/ \E i \in ThunkIds : TimerFire(i) /\ UNCHANGED notMailboxVars
    \/ \E m \in Mailboxes : StartThunk(m) /\ UNCHANGED notMailboxVars
    \/ \E i \in ThunkIds, threw \in BOOLEAN : FinishThunk(i, threw) /\ UNCHANGED notMailboxVars
    \/ Tick /\ UNCHANGED notMailboxVars

(***************************************************************************)
(*                              MessageOut                                  *)
(***************************************************************************)

\* Bounds of the message model.
MaxReads == 2      \* calls the data source answers before it must have ended
MaxAcks == 2       \* receivedAck calls in one run
MaxFrames == 20    \* frames the multiplexer asks one message for

\* static const size_t kDataBufferSize
kDataBufferSize == 16384
\* Codec::kChecksumSize
kChecksumSize == 4
\* nextFrameToSend stops pulling data once dst has less room than this.
kMinRoom == 1024
\* The trailer 00 00 FF FF that ends every SyncFlush output.
kSyncFlushTrailer == 4

Min(a, b) == IF a < b THEN a ELSE b
Last(q) == q[Len(q)]

\* The flags a message is built with (the type bits and the option bits).
MessageTypes == {"Request", "Response", "Error", "AckRequest", "AckResponse"}
FlagSets ==
    {[type |-> t, noReply |-> n, compressed |-> z] :
        t \in {"Request", "Response", "Error"}, n \in BOOLEAN, z \in BOOLEAN}
    \cup {[type |-> t, noReply |-> FALSE, compressed |-> FALSE] :
            t \in {"AckRequest", "AckResponse"}}

\* Message::isAck
IsAck(f) == f.type = "AckRequest" \/ f.type = "AckResponse"

\* The numbers the connection gives its messages.
MessageNumbers == {1, 2}

\* Sizes of the payload (encoded properties + body) a message is built with.
PayloadSizes == {0, 3500, 20000}
\* Size of an ack's body, a varint.
AckBodySizes == {1, 3}

\* What one call of a data source answers: an error, EOF, fewer bytes than the
\* buffer holds, or a full buffer.
ReadResults == {-1, 0, 100, kDataBufferSize}

\* A data source, as the answers it gives to successive calls. It ends with
\* EOF (0) or an error (negative); called again after that, it answers EOF.
RECURSIVE PlansOfLen(_)
PlansOfLen(n) ==
    IF n = 1 THEN {<<r>> : r \in {x \in ReadResults : x <= 0}}
    ELSE {<<r>> \o p : r \in {x \in ReadResults : x > 0}, p \in PlansOfLen(n - 1)}
SourcePlans == UNION {PlansOfLen(n) : n \in 1..MaxReads}

\* The room in dst the multiplexer hands to nextFrameToSend.
FrameCapacities == {4096, 16384}

\* How many input bytes the deflater packs into one output byte.
CompressionRatios == {1, 3}

Slice(start, size) == [start |-> start, size |-> size]

\* MessageOut::MessageOut and MessageOut::Contents::Contents
NewContents(payloadSize, hasSource) ==
    [payload |-> payloadSize > 0,               \* _payload holds a buffer
     unsentPayload |-> Slice(0, payloadSize),
     dataSource |-> hasSource,                   \* _dataSource != nullptr
     dataBuffer |-> FALSE,                       \* _dataBuffer is allocated
     bufBase |-> 0,                              \* which source byte is at _dataBuffer[0]
     unsentData |-> Slice(0, 0),                 \* _unsentDataBuffer
     wild |-> FALSE]                             \* _unsentDataBuffer reaches past _dataBuffer

\* The answer of the data source to its next call.
SourceAnswer(sr) == IF sr.pos <= Len(sr.plan) THEN sr.plan[sr.pos] ELSE 0

\* The data source after that call.
SourceCalled(sr) ==
    LET r == SourceAnswer(sr) IN
    [sr EXCEPT !.pos = @ + 1,
               !.supplied = @ + (IF r > 0 THEN r ELSE 0),
               !.failed = @ \/ r < 0]

\* Mutant: the end of the data source is never noticed.
LessThanSize_Never(bytesWritten, size) == FALSE

\* `bytesWritten < _dataBuffer.size` compares an int with a size_t: the int is
\* converted to unsigned, so a negative count compares as a huge one.
LessThanSize(bytesWritten, size) == bytesWritten >= 0 /\ bytesWritten < size

\* Mutant: the buffer is not cut down to the bytes the source wrote.
ReadFromDataSource_WholeBuffer(c, sr) ==
    [c EXCEPT !.dataBuffer = TRUE,
              !.bufBase = sr.supplied,
              !.unsentData = Slice(0, kDataBufferSize),
              !.dataSource = ~LessThanSize(SourceAnswer(sr), kDataBufferSize)]

\* MessageOut::Contents::readFromDataSource. `_dataBuffer.upTo(bytesWritten)`
\* with a negative count takes the count as a size_t: the slice then reaches
\* far past the buffer (wild).
ReadFromDataSource(c, sr) ==
    LET bytesWritten == SourceAnswer(sr) IN
    [c EXCEPT !.dataBuffer = TRUE,
              !.bufBase = sr.supplied,
              !.unsentData = IF bytesWritten >= 0 THEN Slice(0, bytesWritten) ELSE Slice(0, 0),
              !.wild = bytesWritten < 0,
              !.dataSource = ~LessThanSize(bytesWritten, kDataBufferSize)]

\* _unsentDataBuffer.size == 0
UnsentDataEmpty(c) == ~c.wild /\ c.unsentData.size = 0

\* MessageOut::Contents::dataToSend: the contents and the data source after the
\* call, and which slice the returned reference names.
DataToSend(c, sr) ==
    IF c.unsentPayload.size > 0
      THEN [ct |-> c, src |-> sr, ref |-> "payload"]
      ELSE LET c1 == [c EXCEPT !.payload = FALSE]
               reads == UnsentDataEmpty(c1) /\ c1.dataSource
               c2 == IF reads THEN ReadFromDataSource(c1, sr) ELSE c1
               c3 == IF reads /\ UnsentDataEmpty(c2)
                       THEN [c2 EXCEPT !.dataBuffer = FALSE] ELSE c2
           IN [ct |-> c3, src |-> IF reads THEN SourceCalled(sr) ELSE sr, ref |-> "buffer"]

\* MessageOut::Contents::hasMoreDataToSend
HasMoreDataToSend(c) ==
    c.unsentPayload.size > 0 \/ ~UnsentDataEmpty(c) \/ c.dataSource

\* The size of the slice dataToSend returned, as far as dst can tell: a wild
\* slice is larger than any dst.
DataSize(d, room) ==
    IF d.ref = "payload" THEN d.ct.unsentPayload.size
    ELSE IF d.ct.wild THEN room + 1
    ELSE d.ct.unsentData.size

\* Codec::write in Raw mode: copies as much of the input as dst has room for.
CodecWriteRaw(size, room) ==
    [consumed |-> Min(size, room), written |-> Min(size, room)]

\* Codec::write in SyncFlush mode: deflates as much of the input as is sure to
\* fit into dst, and ends the output with the trailer.
CodecWriteSyncFlush(size, room, ratio) ==
    LET fits == IF room > kSyncFlushTrailer THEN (room - kSyncFlushTrailer) * ratio ELSE 0
        n == Min(size, fits)
    IN [consumed |-> n,
        written |-> IF n = 0 THEN 0 ELSE (n + ratio - 1) \div ratio + kSyncFlushTrailer]

CodecWrite(size, room, mode, ratio) ==
    IF mode = "Raw" THEN CodecWriteRaw(size, room)
    ELSE CodecWriteSyncFlush(size, room, ratio)

\* The bytes of the message a slice names, as a range of offsets into the
\* message's content (the payload, then the bytes of the data source in the
\* order it supplied them); [-1, -1) for bytes that are not message content.
ContentRange(d, n, payloadSize) ==
    IF d.ref = "payload"
      THEN [from |-> d.ct.unsentPayload.start, to |-> d.ct.unsentPayload.start + n]
    ELSE IF d.ct.wild THEN [from |-> -1, to |-> -1]
    ELSE [from |-> payloadSize + d.ct.bufBase + d.ct.unsentData.start,
          to |-> payloadSize + d.ct.bufBase + d.ct.unsentData.start + n]

\* Concatenation of byte ranges.
AppendRange(log, r) ==
    IF r.from = r.to /\ r.from # -1 THEN log
    ELSE IF log # <<>> /\ Last(log).to = r.from
      THEN [log EXCEPT ![Len(log)].to = r.to]
    ELSE Append(log, r)

\* slice::moveStart on the slice dataToSend returned a reference to.
Consume(d, n) ==
    IF d.ref = "payload"
      THEN [d.ct EXCEPT !.unsentPayload = Slice(@.start + n, @.size - n)]
    ELSE IF d.ct.wild THEN d.ct
    ELSE [d.ct EXCEPT !.unsentData = Slice(@.start + n, @.size - n)]

\* Mutant: the size of the slice is added and what is left of it is not
\* taken off again.
CountUncompressed_NoSubtract(n, sizeBefore, sizeAfter) ==
    n + sizeBefore

\* _uncompressedBytesSent += (uint32_t)data.size before codec.write and
\* _uncompressedBytesSent -= (uint32_t)data.size after it, data being the
\* slice the codec has moved the start of.
CountUncompressed(n, sizeBefore, sizeAfter) ==
    (n + sizeBefore) - sizeAfter

\* One pass of the write loop once dataToSend has returned a slice that is not
\* empty: codec.write(data, dst, mode) moves the slice's start and dst's.
\* consumed is what the passes so far have added to _uncompressedBytesSent.
WriteData(L, d, mode, ratio, payloadSize) ==
    LET size == DataSize(d, L.room)
        w == CodecWrite(size, L.room, mode, ratio)
    IN [ct |-> Consume(d, w.consumed),
        src |-> d.src,
        room |-> L.room - w.written,
        pulls |-> L.pulls + 1,
        roomAtPull |-> L.room,
        consumed |-> CountUncompressed(L.consumed, size, size - w.consumed),
        log |-> AppendRange(L.log, ContentRange(d, w.consumed, payloadSize))]

\* The value of a set with one element.
The(S) == CHOOSE x \in S : TRUE

\* Mutant: the loop ends after its first pass.
WriteLoop_OnePass(L, mode, ratio, payloadSize) ==
    The({ IF DataSize(d, L.room) = 0
            THEN [L EXCEPT !.ct = d.ct, !.src = d.src]
            ELSE WriteData(L, d, mode, ratio, payloadSize) :
          d \in {DataToSend(L.ct, L.src)} })

\* The write loop of MessageOut::nextFrameToSend:
\*   do { data = dataToSend(); if (data.size == 0) break; codec.write(...) }
\*   while (dst.size >= 1024);
\* L: contents, data source, room left in dst, the slices written so far and
\* the room dst had when the last of them was pulled, content handed to the
\* codec.
RECURSIVE WriteLoop(_, _, _, _)
WriteLoop(L, mode, ratio, payloadSize) ==
    The({ IF DataSize(d, L.room) = 0
            THEN [L EXCEPT !.ct = d.ct, !.src = d.src]
            ELSE The({ IF L2.room >= kMinRoom
                         THEN WriteLoop(L2, mode, ratio, payloadSize)
                         ELSE L2 :
                       L2 \in {WriteData(L, d, mode, ratio, payloadSize)} }) :
          d \in {DataToSend(L.ct, L.src)} })

\* Mutant: the frame length is added to unackedBytes only.
AddFrameSize_UnackedOnly(m, frameSize) ==
    [m EXCEPT !.unackedBytes = @ + frameSize]

\* _bytesSent += frameSize; _unackedBytes += frameSize;
AddFrameSize(m, frameSize) ==
    [m EXCEPT !.bytesSent = @ + frameSize, !.unackedBytes = @ + frameSize]

\* Mutant: the last frame of every message reports AwaitingReply.
FrameState_IgnoresNoReply(m, c) ==
    IF HasMoreDataToSend(c) THEN "Sending" ELSE "AwaitingReply"

\* The MessageProgress state nextFrameToSend reports after a frame.
FrameState(m, c) ==
    IF HasMoreDataToSend(c) THEN "Sending"
    ELSE IF m.flags.noReply THEN "Complete"
    ELSE "AwaitingReply"

\* Message::sendProgress: the callback gets (state, bytesSent).
SendProgress(log, state, bytesSent) ==
    Append(log, [state |-> state, bytesSent |-> bytesSent])

\* Where the multiplexer keeps a message after a frame of it went out: back
\* into the outbox while more is coming, into the icebox when a reply is
\* awaited, nowhere otherwise.
HeldAfterFrame(m, moreComing) ==
    IF moreComing THEN "outbox"
    ELSE IF m.flags.type = "Request" /\ ~m.flags.noReply THEN "icebox"
    ELSE "none"

\* A message is built and queued by the multiplexer.
Construct(f, payloadSize, hasSource, plan, cap, ratio) ==
    /\ io.pc = "new"
    /\ \E n \in MessageNumbers :
         mo' = [flags |-> f, number |-> n, onProgress |-> "callback",
              bytesSent |-> 0, unackedBytes |-> 0, uncompressedBytesSent |-> 0]
    /\ ct' = NewContents(payloadSize, hasSource)
    /\ src' = [plan |-> plan, pos |-> 1, supplied |-> 0, failed |-> FALSE]
    /\ io' = [io EXCEPT !.pc = "open", !.held = "outbox", !.payloadSize = payloadSize,
                        !.cap = cap, !.ratio = ratio]
    /\ UNCHANGED <<frames, sentData, progress, response>>

\* Mutant: the ack is counted like a frame of a message, and reported.
NextFrameOfAck_Counted ==
    LET d == DataToSend(ct, src)
        n == Min(DataSize(d, io.cap), io.cap)
    IN /\ mo' = AddFrameSize(mo, n)
       /\ ct' = Consume(d, n)
       /\ src' = d.src
       /\ frames' = Append(frames, [moreComing |-> FALSE, size |-> n, payload |-> n,
                                    checksum |-> FALSE])
       /\ io' = [io EXCEPT !.pc = "final", !.held = "none"]
       /\ progress' = SendProgress(progress, FrameState(mo, Consume(d, n)), 0)
       /\ UNCHANGED sentData

\* MessageOut::nextFrameToSend for an ack: no codec, no checksum.
NextFrameOfAck ==
    LET d == DataToSend(ct, src)
        n == Min(DataSize(d, io.cap), io.cap)
    IN /\ mo' = [mo EXCEPT !.bytesSent = @ + n]
       /\ ct' = Consume(d, n)
       /\ src' = d.src
       /\ frames' = Append(frames, [moreComing |-> FALSE, size |-> n, payload |-> n,
                                    checksum |-> FALSE])
       /\ io' = [io EXCEPT !.pc = "final", !.held = "none"]
       /\ UNCHANGED <<sentData, progress>>

\* Codec::unflushedBytes once the write loop has ended: the bytes the deflater
\* took in and has not put into dst. Raw mode holds nothing back.
UnflushedBytes(mode, L) ==
    IF mode = "SyncFlush" /\ L.consumed > 0 THEN {0, 1} ELSE {0}

\* Mutant: the codec is asked for unflushed bytes after the frame is counted
\* and reported.
CompressionBufferOverflow_Late(L, unflushed) ==
    /\ mo' = [AddFrameSize(mo, io.cap - L.room) EXCEPT !.uncompressedBytesSent = @ + L.consumed]
    /\ ct' = L.ct
    /\ src' = L.src
    /\ io' = [io EXCEPT !.pc = "failed", !.held = "none", !.unflushed = unflushed]
    /\ progress' = SendProgress(progress, FrameState(mo, L.ct), mo.uncompressedBytesSent)
    /\ UNCHANGED <<frames, sentData>>

\* if (codec.unflushedBytes() > 0) throw runtime_error("Compression buffer
\* overflow"): nextFrameToSend ends here, with what the write loop did to the
\* contents and to _uncompressedBytesSent, and the message is not sent on.
CompressionBufferOverflow(L, unflushed) ==
    /\ mo' = [mo EXCEPT !.uncompressedBytesSent = @ + L.consumed]
    /\ ct' = L.ct
    /\ src' = L.src
    /\ io' = [io EXCEPT !.pc = "failed", !.held = "none", !.unflushed = unflushed]
    /\ UNCHANGED <<frames, sentData, progress>>

\* MessageOut::nextFrameToSend for any other message.
NextFrameOfMessage ==
    LET mode == IF mo.flags.compressed THEN "SyncFlush" ELSE "Raw"
        frameSize == io.cap
    IN \E L \in {WriteLoop([ct |-> ct, src |-> src, room |-> frameSize - kChecksumSize,
                            pulls |-> 0, roomAtPull |-> frameSize - kChecksumSize,
                            consumed |-> 0, log |-> sentData],
                           mode, io.ratio, io.payloadSize)} :
    LET bytesWritten == (frameSize - kChecksumSize) - L.room
        \* the SyncFlush trailer is taken off again
        room1 == IF mode = "SyncFlush" /\ bytesWritten > 0
                   THEN L.room + kSyncFlushTrailer ELSE L.room
        \* the checksum goes where room was reserved for it
        room2 == (room1 + kChecksumSize) - kChecksumSize
        len == frameSize - room2
        m1 == [AddFrameSize(mo, len) EXCEPT !.uncompressedBytesSent = @ + L.consumed]
        more == HasMoreDataToSend(L.ct)
    IN \E unflushed \in UnflushedBytes(mode, L) :
       IF unflushed > 0 THEN CompressionBufferOverflow(L, unflushed) ELSE
       /\ mo' = m1
       /\ ct' = L.ct
       /\ src' = L.src
       /\ sentData' = L.log
       /\ frames' = Append(frames, [moreComing |-> more, size |-> len,
                                    payload |-> len - kChecksumSize, checksum |-> TRUE,
                                    pulls |-> L.pulls, roomAtPull |-> L.roomAtPull,
                                    room |-> L.room])
       /\ progress' = SendProgress(progress, FrameState(mo, L.ct), m1.uncompressedBytesSent)
       /\ io' = [io EXCEPT !.pc = IF more THEN "open" ELSE "final",
                           !.held = HeldAfterFrame(mo, more),
                           !.unflushed = unflushed]

\* The multiplexer sends the next frame of the message; it asks for frames
\* until one comes without MoreComing.
NextFrameToSend ==
    /\ io.pc = "open"
    /\ Len(frames) < MaxFrames
    /\ IF IsAck(mo.flags) THEN NextFrameOfAck ELSE NextFrameOfMessage
    /\ UNCHANGED response

\* Mutant: an ack of more than was sent acknowledges everything.
AckedCount_Clamped(m, byteCount) ==
    IF byteCount <= m.bytesSent
      THEN Min(m.unackedBytes, m.bytesSent - byteCount)
      ELSE 0

\* Mutant: the new count is taken without comparing it with the old one.
AckedCount_NoMin(m, byteCount) ==
    IF byteCount <= m.bytesSent THEN m.bytesSent - byteCount ELSE m.unackedBytes

\* The value receivedAck leaves in _unackedBytes.
AckedCount(m, byteCount) ==
    IF byteCount <= m.bytesSent
      THEN Min(m.unackedBytes, m.bytesSent - byteCount)
      ELSE m.unackedBytes

\* MessageOut::receivedAck(byteCount)
ReceivedAck(byteCount) ==
    /\ io.pc \in {"open", "final"}
    /\ io.held # "none"
    /\ io.acks < MaxAcks
    /\ mo' = [mo EXCEPT !.unackedBytes = AckedCount(mo, byteCount)]
    /\ io' = [io EXCEPT !.acks = @ + 1, !.lastAck = byteCount]
    /\ UNCHANGED <<ct, src, frames, sentData, progress, response>>

\* The cumulative counts a peer's ack may carry: nothing, part or all of what
\* was sent, and more than was sent.
AckCounts == {0, mo.bytesSent \div 2, mo.bytesSent, mo.bytesSent + 1}

\* Mutant: a response is created for NoReply requests too.
ExpectsResponse_IgnoreNoReply(m) == m.flags.type = "Request"

\* !(type() != kRequestType || noReply())
ExpectsResponse(m) == m.flags.type = "Request" /\ ~m.flags.noReply

\* The nullptr createResponse returns when there is no response to expect.
NoMessageIn ==
    [created |-> FALSE, type |-> "none", number |-> 0, onProgress |-> "none",
     outgoingSize |-> 0]

\* MessageOut::createResponse: nullptr, or the new MessageIn.
CreateResponse(m) ==
    IF ~ExpectsResponse(m) THEN NoMessageIn
    ELSE [created |-> TRUE, type |-> "Response", number |-> m.number,
          onProgress |-> m.onProgress, outgoingSize |-> m.uncompressedBytesSent]

\* The multiplexer asks for the placeholder of the response once the message
\* has been sent.
CallCreateResponse ==
    /\ io.pc = "final"
    /\ ~response.called
    /\ response' = [called |-> TRUE, in |-> CreateResponse(mo)]
    /\ UNCHANGED <<mo, ct, src, io, frames, sentData, progress>>

\* Mutant: every message reports the disconnect.
ReportsDisconnect_Always(m) == TRUE

\* !(type() != kRequestType || noReply()) in MessageOut::disconnected
ReportsDisconnect(m) == m.flags.type = "Request" /\ ~m.flags.noReply

\* MessageOut::disconnected: Message::disconnected() reports kDisconnected.
MessageOutDisconnected(m, log) ==
    IF ~ReportsDisconnect(m) THEN log
    ELSE SendProgress(log, "Disconnected", 0)

\* The connection closes: the multiplexer empties outbox and icebox and tells
\* every message it held.
Disconnect ==
    /\ io.pc \in {"open", "final"}
    /\ io.held # "none"
    /\ progress' = MessageOutDisconnected(mo, progress)
    /\ io' = [io EXCEPT !.pc = "closed", !.heldAtClose = io.held, !.held = "none"]
    /\ UNCHANGED <<mo, ct, src, frames, sentData, response>>

InitMessage ==
    /\ mo = [flags |-> [type |-> "Request", noReply |-> FALSE, compressed |-> FALSE],
             number |-> 0, onProgress |-> "none",
             bytesSent |-> 0, unackedBytes |-> 0, uncompressedBytesSent |-> 0]
    /\ ct = NewContents(0, FALSE)
    /\ src = [plan |-> <<>>, pos |-> 1, supplied |-> 0, failed |-> FALSE]
    /\ io = [pc |-> "new", held |-> "none", heldAtClose |-> "none", payloadSize |-> 0,
             cap |-> 0, ratio |-> 1, acks |-> 0, lastAck |-> 0, unflushed |-> 0]
    /\ frames = <<>>
    /\ sentData = <<>>
    /\ progress = <<>>
    /\ response = [called |-> FALSE, in |-> NoMessageIn]

\* What the message operations leave alone.
notMessageVars == <<mailboxVars, asyncVars, batcherVars, loopbackVars, manifestVars>>

\* The multiplexer builds a message from a MessageBuilder: any flags, payload,
\* data source and frame size.
BuildMessage ==
    \E f \in FlagSets, cap \in FrameCapacities :
        \/ /\ IsAck(f)
           /\ \E n \in AckBodySizes : Construct(f, n, FALSE, <<>>, cap, 1)
        \/ /\ ~IsAck(f)
           /\ \E n \in PayloadSizes,
                 ratio \in IF f.compressed THEN CompressionRatios ELSE {1} :
                   \/ Construct(f, n, FALSE, <<>>, cap, ratio)
                   \/ \E plan \in SourcePlans : Construct(f, n, TRUE, plan, cap, ratio)

NextMessageOut ==
    \/ BuildMessage /\ UNCHANGED notMessageVars
    \/ NextFrameToSend /\ UNCHANGED notMessageVars
    \/ CallCreateResponse /\ UNCHANGED notMessageVars
    \/ Disconnect /\ UNCHANGED notMessageVars

\* The messages of the flow-control runs: a request, a compressed response and
\* an ack, with and without a data source.
FlowFlagSets ==
    {[type |-> "Request", noReply |-> FALSE, compressed |-> FALSE],
     [type |-> "Response", noReply |-> FALSE, compressed |-> TRUE],
     [type |-> "AckRequest", noReply |-> FALSE, compressed |-> FALSE]}

BuildFlowMessage ==
    \E f \in FlowFlagSets, cap \in FrameCapacities :
        \/ /\ IsAck(f)
           /\ \E n \in AckBodySizes : Construct(f, n, FALSE, <<>>, cap, 1)
        \/ /\ ~IsAck(f)
           /\ \E n \in PayloadSizes :
                \/ Construct(f, n, FALSE, <<>>, cap, 1)
                \/ \E plan \in {<<100, 0>>, <<kDataBufferSize, 0>>} :
                     Construct(f, n, TRUE, plan, cap, 1)

NextFlowControl ==
    \/ BuildFlowMessage /\ UNCHANGED notMessageVars
    \/ NextFrameToSend /\ UNCHANGED notMessageVars
    \/ \E n \in AckCounts : ReceivedAck(n) /\ UNCHANGED notMessageVars

(***************************************************************************)
(*                                 Async                                   *)
(***************************************************************************)

\* Two providers made with Async<T>::provider(), whose results the application
\* sets, and the provider of an async function whose body awaits them in turn:
\*   BEGIN_ASYNC_RETURNING(T) asyncCall(a, P1); asyncCall(b, P2); return t; END_ASYNC()
Promises == {"P1", "P2"}
Functions == {"F"}
Providers == Promises \cup Functions

\* A second async function, whose body awaits the first promise as well:
\*   BEGIN_ASYNC() asyncCall(a, P1); END_ASYNC()
SecondFunctions == {"G"}
AllProviders == Providers \cup SecondFunctions
Awaits(p) == IF p = "F" THEN <<"P1", "P2">>
             ELSE IF p = "G" THEN <<"P1">>
             ELSE <<>>

\* What the application does, each once: call the async function, and call
\* setResult on each promise.
Jobs == {[job |-> "call", p |-> f] : f \in Functions}
        \cup {[job |-> "setResult", p |-> a] : a \in Promises}

\* The block Actor::wakeAsyncProvider puts on the actor's mailbox.
NextJob(p) == [job |-> "next", p |-> p]

\* A call a thread is in the middle of: next() or _gotResult() of provider p,
\* where in it, and the local variable `observer` of _gotResult.
Frame(fn, p, pc) == [fn |-> fn, p |-> p, pc |-> pc, observer |-> "none"]

\* The threads that execute: the outside threads and the workers of the
\* thunks that have started.
Contexts == DOMAIN stack
Top(c) == stack[c][Len(stack[c])]
At(c, fn, pc) == stack[c] # <<>> /\ Top(c).fn = fn /\ Top(c).pc = pc
Pop(c) == [stack EXCEPT ![c] = SubSeq(@, 1, Len(@) - 1)]
SetTop(c, f) == [stack EXCEPT ![c][Len(stack[c])] = f]
Idle(c) == c.thunk = 0 /\ stack[c] = <<>>

\* The calls a block starts with when its thunk begins to run.
BlockFrames(block) ==
    IF block.job = "setResult" THEN <<Frame("gotResult", block.p, "setReady")>>
    ELSE <<Frame("next", block.p, "body")>>

\* AsyncState::mustWaitFor(a, lineNo), after the asyncResult of the await the
\* body is continuing at: the state it leaves. lineNo is the number of the await.
MustWaitFor(st, a, lineNo) == [st EXCEPT !.waitingOn = a, !.continueAt = lineNo]

\* AsyncState::asyncResult: _waitingOn = nullptr.
AsyncResult(st) == [st EXCEPT !.waitingOn = "none"]

\* assert() of <cassert>: checked in a build without NDEBUG, no code at all
\* in a build with it.
Builds == {"debug", "NDEBUG"}

\* AsyncProviderBase::setObserver: assert(!_observer); _observer = p. On a
\* provider that has an observer the assert ends the process in a build that
\* checks it; in a build with NDEBUG the observer is replaced.
SetObserver(pv, a, p, build) ==
    IF pv[a].observer = "none" THEN [pv EXCEPT ![a].observer = p]
    ELSE IF build = "debug" THEN [pv EXCEPT ![a].second = "abort"]
    ELSE [pv EXCEPT ![a].observer = p, ![a].second = "replaced"]

\* Mutant: the actor the function is running on is not captured.
Wait_NoActor(pv, p, c, build) == SetObserver(pv, pv[p].waitingOn, p, build)

\* AsyncProviderBase::_wait: _actor = Actor::currentActor();
\* _state._waitingOn->setObserver(this).
Wait(pv, p, c, build) ==
    SetObserver([pv EXCEPT ![p].actor = CurrentMailbox(c)], pv[p].waitingOn, p, build)

\* The application calls the async function on thread c: _asyncBody makes a new
\* AsyncProvider, whose constructor calls next().
CallAsyncFunction(c, f) ==
    /\ Idle(c)
    /\ [job |-> "call", p |-> f] \in todo
    /\ todo' = todo \ {[job |-> "call", p |-> f]}
    /\ stack' = [stack EXCEPT ![c] = <<Frame("next", f, "body")>>]
    /\ UNCHANGED <<prov, resumes, mailboxVars>>

\* AsyncProvider::setResult called on thread c: _result = result; _gotResult().
SetResult(c, a) ==
    /\ Idle(c)
    /\ [job |-> "setResult", p |-> a] \in todo
    /\ todo' = todo \ {[job |-> "setResult", p |-> a]}
    /\ stack' = [stack EXCEPT ![c] = <<Frame("gotResult", a, "setReady")>>]
    /\ UNCHANGED <<prov, resumes, mailboxVars>>

\* Thread c enqueues, on the actor with mailbox m, a method that does the job.
EnqueueJob(c, m, j) ==
    /\ Idle(c)
    /\ j \in todo
    /\ todo' = todo \ {j}
    /\ Enqueue(c, m, j)
    /\ UNCHANGED <<prov, stack, resumes>>

\* The resumption the block of thunk i is, if it is one.
Resumption(i, tk) ==
    IF tk[i].block.job # "next" THEN <<>>
    ELSE <<[p |-> tk[i].block.p, continueAt |-> prov[tk[i].block.p].continueAt,
            suspendedOn |-> prov[tk[i].block.p].suspendedOn,
            via |-> "thunk", by |-> ThunkCaller(i), on |-> tk[i].mb,
            wokenBy |-> tk[i].caller]>>

\* The dispatch queue of mailbox m starts its next block.
StartAsyncThunk(m) ==
    /\ StartThunk(m)
    /\ LET i == NextBlock(m) IN
        /\ stack' = (ThunkCaller(i) :> BlockFrames(thunks[i].block)) @@ stack
        /\ resumes' = resumes \o Resumption(i, thunks)
    /\ UNCHANGED <<prov, todo>>

\* The block of thunk i has returned.
FinishAsyncThunk(i) ==
    /\ ThunkCaller(i) \in Contexts
    /\ stack[ThunkCaller(i)] = <<>>
    /\ FinishThunk(i, FALSE)
    /\ UNCHANGED asyncVars

\* next(): _body(_state) runs from _continueAt up to its next asyncCall, or to
\* its end: asyncResult of the await it continues at, then mustWaitFor of the
\* next one; `return {}` if that one is not ready.
Body(c) ==
    /\ At(c, "next", "body")
    /\ LET p == Top(c).p
           k == prov[p].continueAt
       IN IF k < Len(Awaits(p))
            THEN LET a == Awaits(p)[k + 1] IN
                 /\ prov' = [prov EXCEPT ![p] = MustWaitFor(AsyncResult(@), a, k + 1)]
                 /\ stack' = IF prov[a].ready THEN stack
                             ELSE SetTop(c, [Top(c) EXCEPT !.pc = "afterBody"])
            ELSE /\ prov' = [prov EXCEPT ![p] = AsyncResult(@)]
                 /\ stack' = SetTop(c, [Top(c) EXCEPT !.pc = "afterBody"])
    /\ UNCHANGED <<resumes, todo, mailboxVars>>

\* next(), after the body: if (_state._waitingOn) _wait(); else _gotResult();
AfterBody(c) ==
    /\ At(c, "next", "afterBody")
    /\ LET p == Top(c).p IN
        IF prov[p].waitingOn # "none"
          THEN /\ \E build \in Builds :
                    prov' = [Wait(prov, p, c, build) EXCEPT
                               ![p].suspendedOn = CurrentMailbox(c)]
               /\ stack' = Pop(c)
          ELSE /\ stack' = SetTop(c, Frame("gotResult", p, "setReady"))
               /\ UNCHANGED prov
    /\ UNCHANGED <<resumes, todo, mailboxVars>>

\* _gotResult: _ready = true;
SetReady(c) ==
    /\ At(c, "gotResult", "setReady")
    /\ prov' = [prov EXCEPT ![Top(c).p].ready = TRUE]
    /\ stack' = SetTop(c, [Top(c) EXCEPT !.pc = "readObserver"])
    /\ UNCHANGED <<resumes, todo, mailboxVars>>

\* _gotResult: auto observer = _observer;
ReadObserver(c) ==
    /\ At(c, "gotResult", "readObserver")
    /\ stack' = SetTop(c, [Top(c) EXCEPT !.pc = "clearObserver",
                                         !.observer = prov[Top(c).p].observer])
    /\ UNCHANGED <<prov, resumes, todo, mailboxVars>>

\* _gotResult: _observer = nullptr;
ClearObserver(c) ==
    /\ At(c, "gotResult", "clearObserver")
    /\ prov' = [prov EXCEPT ![Top(c).p].observer = "none"]
    /\ stack' = SetTop(c, [Top(c) EXCEPT !.pc = "wakeUp"])
    /\ UNCHANGED <<resumes, todo, mailboxVars>>

\* Mutant: the observer is always resumed by a direct call of next().
HasActor_Never(pv, o) == FALSE

\* `if (_actor)` in wakeUp
HasActor(pv, o) == pv[o].actor # "none"

\* Actor::wakeAsyncProvider(provider): enqueues a call of provider->next() on
\* the actor's mailbox.
WakeAsyncProvider(c, actor, o) == Enqueue(c, actor, NextJob(o))

\* _gotResult: if (observer) observer->wakeUp(this); and wakeUp itself:
\* if (_actor) _actor->wakeAsyncProvider(this); else next();
WakeUp(c) ==
    /\ At(c, "gotResult", "wakeUp")
    /\ LET o == Top(c).observer IN
        IF o = "none"
          THEN /\ stack' = Pop(c)
               /\ UNCHANGED <<resumes, mailboxVars>>
        ELSE IF HasActor(prov, o)
          THEN /\ WakeAsyncProvider(c, prov[o].actor, o)
               /\ stack' = Pop(c)
               /\ UNCHANGED resumes
          ELSE /\ stack' = SetTop(c, Frame("next", o, "body"))
               /\ resumes' = Append(resumes,
                                [p |-> o, continueAt |-> prov[o].continueAt,
                                 suspendedOn |-> prov[o].suspendedOn,
                                 via |-> "wakeUp", by |-> c, on |-> CurrentMailbox(c),
                                 wokenBy |-> c])
               /\ UNCHANGED mailboxVars
    /\ UNCHANGED <<prov, todo>>

InitAsync ==
    /\ prov = [p \in AllProviders |->
                 [ready |-> FALSE, observer |-> "none", actor |-> "none",
                  waitingOn |-> "none", continueAt |-> 0,
                  suspendedOn |-> "none",     \* where the function ran when it last suspended
                  resultCall |-> "none",      \* what a call of result() by the application did
                  second |-> "none"]]         \* what setObserver did when there was an observer
    /\ stack = [c \in {ThreadCaller(t) : t \in Threads} |-> <<>>]
    /\ resumes = <<>>
    /\ todo = Jobs

\* AsyncProvider::result: assert(_ready); return _result. What the caller gets:
\* the result, an abort, or the value-initialised _result.
ProviderResult(pv, build) ==
    IF pv.ready THEN "value"
    ELSE IF build = "debug" THEN "abort"
    ELSE "default"

\* The application calls result() on the Async of provider p (for an async
\* function: the Async its call returned, here at a time when no call is
\* under way).
CallResult(c, p, build) ==
    /\ Idle(c)
    /\ prov[p].resultCall = "none"
    /\ p \in Functions => /\ [job |-> "call", p |-> p] \notin todo
                           /\ \A x \in Contexts : stack[x] = <<>>
    /\ prov' = [prov EXCEPT ![p].resultCall = ProviderResult(prov[p], build)]
    /\ UNCHANGED <<stack, resumes, todo, mailboxVars>>

\* What the async operations leave alone.
notAsyncVars == <<messageVars, batcherVars, loopbackVars, manifestVars>>

NextAsync ==
    \/ \E c \in Contexts, f \in Functions : CallAsyncFunction(c, f) /\ UNCHANGED notAsyncVars
    \/ \E c \in Contexts, a \in Promises : SetResult(c, a) /\ UNCHANGED notAsyncVars
    \/ \E c \in Contexts, m \in Mailboxes, j \in Jobs : EnqueueJob(c, m, j) /\ UNCHANGED notAsyncVars
    \/ \E m \in Mailboxes : StartAsyncThunk(m) /\ UNCHANGED notAsyncVars
    \/ \E i \in ThunkIds : FinishAsyncThunk(i) /\ UNCHANGED notAsyncVars
    \/ \E c \in Contexts : Body(c) /\ UNCHANGED notAsyncVars
    \/ \E c \in Contexts : AfterBody(c) /\ UNCHANGED notAsyncVars
    \/ \E c \in Contexts : SetReady(c) /\ UNCHANGED notAsyncVars
    \/ \E c \in Contexts : ReadObserver(c) /\ UNCHANGED notAsyncVars
    \/ \E c \in Contexts : ClearObserver(c) /\ UNCHANGED notAsyncVars
    \/ \E c \in Contexts : WakeUp(c) /\ UNCHANGED notAsyncVars

\* The application on its own threads, calling result() as well; an abort ends
\* the process.
Aborted == \E p \in Providers : prov[p].resultCall = "abort"

\* A thread goes one step on in the call it is in the middle of.
ThreadStep(c) ==
    \/ Body(c) /\ UNCHANGED notAsyncVars
    \/ AfterBody(c) /\ UNCHANGED notAsyncVars
    \/ SetReady(c) /\ UNCHANGED notAsyncVars
    \/ ReadObserver(c) /\ UNCHANGED notAsyncVars
    \/ ClearObserver(c) /\ UNCHANGED notAsyncVars
    \/ WakeUp(c) /\ UNCHANGED notAsyncVars

\* The application without actors: the async function and the setResult calls
\* are made on the outside threads.
NextAsyncThreads ==
    \/ \E c \in Contexts, f \in Functions : CallAsyncFunction(c, f) /\ UNCHANGED notAsyncVars
    \/ \E c \in Contexts, a \in Promises : SetResult(c, a) /\ UNCHANGED notAsyncVars
    \/ \E c \in Contexts : ThreadStep(c)

\* The application calls the second async function on thread c, once.
CallSecondFunction(c, g) ==
    /\ Idle(c)
    /\ prov[g].waitingOn = "none" /\ ~prov[g].ready
    /\ \A x \in Contexts : \A k \in 1..Len(stack[x]) : stack[x][k].p # g
    /\ stack' = [stack EXCEPT ![c] = <<Frame("next", g, "body")>>]
    /\ UNCHANGED <<prov, resumes, todo, mailboxVars>>

\* A failed assert(!_observer) has ended the process.
ObserverAbort == \E p \in AllProviders : prov[p].second = "abort"

\* The application with both async functions, on its own threads.
NextAsyncObservers ==
    /\ ~ObserverAbort
    /\ \/ NextAsyncThreads
       \/ \E c \in Contexts, g \in SecondFunctions :
            CallSecondFunction(c, g) /\ UNCHANGED notAsyncVars

NextAsyncResult ==
    /\ ~Aborted
    /\ \/ NextAsyncThreads
       \/ \E c \in Contexts, p \in Providers, build \in Builds :
            CallResult(c, p, build) /\ UNCHANGED notAsyncVars

(***************************************************************************)
(*                                Batcher                                  *)
(***************************************************************************)

\* Bound of the batcher model: calls of push in one run.
MaxPushes == 4

\* The latency and capacity a Batcher is constructed with (0: the defaults).
Latencies == {0, 1}
Capacities == {0, 2}

\* The mailbox of the actor that owns the Batcher.
BatcherActor == "parent"

\* The block Actor::enqueue(_processor) puts on the mailbox.
ProcessorJob == [job |-> "processor", p |-> "batcher"]

\* _items: nullptr, or a vector.
NoItems == [null |-> TRUE, v |-> <<>>]

\* Mutant: the new item goes to the front of the vector.
PushBack_Front(items, item) == [null |-> FALSE, v |-> <<item>> \o items.v]

\* if (!_items) _items.reset(new vector); _items->push_back(item);
PushBack(items, item) == [null |-> FALSE, v |-> Append(items.v, item)]

\* Timer::clock::now() - _popTime, counted up to "longer than the latency".
\* _popTime starts as the clock's epoch.
TimeSincePop(b) == b.sincePop

\* _latency > 0 && _capacity > 0 &&
\*    (_items->size() == _capacity || (!_scheduled && timeSincePop() > _latency))
ScheduleNow(b, size) ==
    /\ b.latency > 0
    /\ b.capacity > 0
    /\ (size = b.capacity \/ (~b.scheduled /\ TimeSincePop(b) > b.latency))

\* Batcher::Batcher
BatcherConstruct(latency, capacity) ==
    /\ ~bt.made
    /\ bt' = [bt EXCEPT !.made = TRUE, !.latency = latency, !.capacity = capacity,
                        !.sincePop = latency + 1]
    /\ UNCHANGED <<pushed, pops, mailboxVars>>

\* Batcher::push(item), called on thread c. The mutex makes it one step.
BatcherPush(c) ==
    /\ bt.made
    /\ Len(pushed) < MaxPushes
    /\ LET item == [n |-> Len(pushed) + 1, by |-> c.thread]   \* the item, and who pushes it
           its == PushBack(bt.items, item)
           b1 == [bt EXCEPT !.items = its,
                            \* when the batch began, and how long after the last pop
                            !.firstAge = IF bt.items.null THEN 0 ELSE @,
                            !.firstLate = IF bt.items.null
                                            THEN TimeSincePop(bt) > bt.latency ELSE @]
       IN /\ pushed' = Append(pushed, item)
          /\ IF ScheduleNow(bt, Len(its.v))
               THEN /\ bt' = [b1 EXCEPT !.scheduled = TRUE]
                    /\ Enqueue(c, BatcherActor, ProcessorJob)
             ELSE IF ~bt.scheduled
               THEN /\ bt' = [b1 EXCEPT !.scheduled = TRUE]
                    /\ EnqueueAfter(c, BatcherActor, bt.latency, ProcessorJob)
               ELSE /\ bt' = b1
                    /\ UNCHANGED mailboxVars
    /\ UNCHANGED pops

\* Mutant: pop forgets to clear _scheduled.
BatcherPop_KeepsScheduled(b) == [b EXCEPT !.sincePop = 0, !.items = NoItems]

\* Mutant: pop hands out a copy and keeps the items.
BatcherPop_KeepsItems(b) == [b EXCEPT !.scheduled = FALSE, !.sincePop = 0]

\* Batcher::pop: _scheduled = false; _popTime = now; return move(_items);
BatcherPop(b) == [b EXCEPT !.scheduled = FALSE, !.sincePop = 0, !.items = NoItems]

\* The processor method of the actor runs as the block of thunk i: it calls
\* pop and works on the batch.
RunProcessor(i) ==
    /\ thunks[i].block = ProcessorJob
    /\ FinishThunk(i, FALSE)
    /\ bt' = [BatcherPop(bt) EXCEPT !.popMark = Len(pushed)]
    /\ pops' = Append(pops, [result |-> bt.items,
                             from |-> bt.popMark, to |-> Len(pushed),
                             firstAge |-> bt.firstAge, firstLate |-> bt.firstLate,
                             left |-> BatcherPop(bt).items])
    /\ UNCHANGED pushed

\* One unit of time passes.
BatcherTick ==
    /\ bt.made
    /\ thunks' = [i \in ThunkIds |->
                    IF thunks[i].st = "timer" /\ thunks[i].wait > 0
                      THEN [thunks[i] EXCEPT !.wait = @ - 1, !.age = @ + 1]
                      ELSE thunks[i]]
    /\ bt' = [bt EXCEPT !.sincePop = Min(@ + 1, bt.latency + 1),
                        !.firstAge = IF bt.items.null THEN @ ELSE Min(@ + 1, bt.latency)]
    /\ UNCHANGED <<queue, eventCount, retains, sCurrentManifest, manifests, pushed, pops>>

InitBatcher ==
    /\ bt = [made |-> FALSE, latency |-> 0, capacity |-> 0,
             items |-> NoItems, scheduled |-> FALSE, sincePop |-> 0,
             firstAge |-> 0, firstLate |-> FALSE, popMark |-> 0]
    /\ pushed = <<>>
    /\ pops = <<>>

\* What the batcher operations leave alone.
notBatcherVars == <<messageVars, asyncVars, loopbackVars, manifestVars>>

NextBatcher ==
    \/ \E l \in Latencies, k \in Capacities : BatcherConstruct(l, k) /\ UNCHANGED notBatcherVars
    \/ \E t \in Threads : BatcherPush(ThreadCaller(t)) /\ UNCHANGED notBatcherVars
    \/ \E i \in ThunkIds : TimerFire(i) /\ UNCHANGED <<batcherVars, notBatcherVars>>
    \/ StartThunk(BatcherActor) /\ UNCHANGED <<batcherVars, notBatcherVars>>
    \/ \E i \in ThunkIds : RunProcessor(i) /\ UNCHANGED notBatcherVars
    \/ BatcherTick /\ UNCHANGED notBatcherVars

(***************************************************************************)
(*                          LoopbackWebSocket                               *)
(***************************************************************************)

\* Bounds of the loopback model.
MaxSends == 2         \* calls of send in one run
MaxReschedules == 1   \* times a method puts itself off because the socket is not ready

\* static constexpr size_t kSendBufferSize = 32 * 1024
kSendBufferSize == 32768

\* _rescheduleLatency {0.5}: half a second is the model's unit of time.
RescheduleLatency == 1

\* The latency LoopbackProvider is constructed with, in units of time.
LoopLatencies == {0, 1}

\* The two sockets LoopbackProvider::connect is given.
Sockets == {"lc1", "lc2"}
OtherSocket(s) == IF s = "lc1" THEN "lc2" ELSE "lc1"

\* The sizes of the messages the application sends, and its close statuses.
MessageSizes == {20000, 32768}
CloseStatuses == {1000, 1001}

\* A method call posted to a socket's mailbox: the method, its status, peer or
\* size argument, and the number of the message it carries (0: none).
Job(method, arg, msg) == [job |-> method, arg |-> arg, msg |-> msg]

\* Actor::enqueue on socket s, whose mailbox runs the calls it is given one at
\* a time, in the order they were given (GCDMailbox::enqueue, a serial queue).
ActorEnqueue(q, s, job) == [q EXCEPT ![s] = Append(@, job)]

\* Actor::enqueueAfter(delay, ...) on socket s: dispatch_after holds the call
\* until the delay has passed; without a delay it is enqueued at once.
ActorEnqueueAfter(q, s, d, job) ==
    IF d > 0
      THEN /\ timers' = Append(timers, [to |-> s, wait |-> d, job |-> job])
           /\ calls' = q
      ELSE /\ calls' = ActorEnqueue(q, s, job)
           /\ UNCHANGED timers

\* The total size of the messages s has sent whose _ack has not yet run.
RECURSIVE Outstanding(_, _)
Outstanding(s, k) ==
    IF k = 0 THEN 0
    ELSE (IF sends[k].from = s /\ ~sends[k].acked THEN sends[k].size ELSE 0)
         + Outstanding(s, k - 1)

\* LoopbackProvider(latency); createWebSocket hands the latency to each socket.
CreateProvider(latency) ==
    /\ ~net.made
    /\ net' = [net EXCEPT !.made = TRUE, !.latency = latency]
    /\ UNCHANGED <<ws, sends, inbox, calls, timers>>

\* LoopbackProvider::connect: lc1->connectToPeer(lc2), then lc2->connectToPeer(lc1);
\* connectToPeer enqueues _connectToPeer.
ConnectToPeer(s) ==
    /\ net.made /\ ~net.crashed
    /\ net.connectCalls = (IF s = "lc1" THEN 0 ELSE 1)
    /\ calls' = ActorEnqueue(calls, s, Job("_connectToPeer", OtherSocket(s), 0))
    /\ net' = [net EXCEPT !.connectCalls = @ + 1]
    /\ UNCHANGED <<ws, sends, inbox, timers>>

\* The application gives socket s its delegate.
SetDelegate(s) ==
    /\ net.made /\ ~net.crashed
    /\ ~ws[s].delegate
    /\ ws' = [ws EXCEPT ![s].delegate = TRUE]
    /\ UNCHANGED <<sends, inbox, net, calls, timers>>

\* Mutant: a send that fills the buffer exactly is refused too.
SendResult_Strict(newValue) == newValue < kSendBufferSize

\* return newValue <= kSendBufferSize
SendResult(newValue) == newValue <= kSendBufferSize

\* Mutant: the message is handed on only when there is room for it.
ForwardSend_IfRoom(q, s, size, msg, newValue) ==
    IF newValue <= kSendBufferSize
      THEN ActorEnqueue(q, s, Job("_send", size, msg))
      ELSE q

\* MockWebSocket::send(msg, binary): enqueue(_send, msg, binary)
ForwardSend(q, s, size, msg, newValue) == ActorEnqueue(q, s, Job("_send", size, msg))

\* LoopbackWebSocket::send(msg, binary)
Send(s, size) ==
    /\ net.made /\ ~net.crashed
    /\ Len(sends) < MaxSends
    /\ LET newValue == ws[s].bufferedBytes + size
           msg == Len(sends) + 1
       IN /\ ws' = [ws EXCEPT ![s].bufferedBytes = newValue]
          /\ sends' = Append(sends, [from |-> s, size |-> size,
                                     ok |-> SendResult(newValue),
                                     outstanding |-> Outstanding(s, Len(sends)) + size,
                                     acked |-> FALSE,
                                     ready |-> ws[s].readyToUse,
                                     wasClosed |-> net.closes[s] # <<>>,
                                     writeables |-> net.writeable[s]])
          /\ calls' = ForwardSend(calls, s, size, msg, newValue)
    /\ UNCHANGED <<inbox, net, timers>>

\* MockWebSocket::close(status, message): enqueue(_close, status, message)
Close(s, status) ==
    /\ net.made /\ ~net.crashed
    /\ net.closeCalled[s] = 0
    /\ calls' = ActorEnqueue(calls, s, Job("_close", status, 0))
    /\ net' = [net EXCEPT !.closeCalled[s] = status]
    /\ UNCHANGED <<ws, sends, inbox, timers>>

\* "Reschedule, we are not ready yet": enqueueAfter(_rescheduleLatency, the same
\* method, the same arguments).
Reschedule(q, s, job) ==
    /\ net.reschedules < MaxReschedules
    /\ ActorEnqueueAfter(q, s, RescheduleLatency, job)
    /\ net' = [net EXCEPT !.reschedules = @ + 1]
    /\ UNCHANGED <<ws, sends, inbox>>

\* What a call through the null _peer does: the process dies (a failed assert,
\* a fault), or the call has no effect on any socket.
NullCallOutcomes == {"crash", "skip"}
NullCall(n, outcome) == IF outcome = "crash" THEN [n EXCEPT !.crashed = TRUE] ELSE n

\* LoopbackWebSocket::_connectToPeer(peer, responseHeaders)
ConnectToPeerBody(q, s, job) ==
    IF ~ws[s].delegate
      THEN Reschedule(q, s, job)
      ELSE /\ ws' = [ws EXCEPT ![s].peer = job.arg,
                               ![s].isOpen = TRUE,
                               ![s].readyToUse = TRUE]
           /\ net' = [net EXCEPT !.connected[s] = @ + 1]
           /\ calls' = q
           /\ UNCHANGED <<sends, inbox, timers>>

\* LoopbackWebSocket::_send(msg, binary); _peer->simulateReceived(msg, binary,
\* _latency) is enqueueAfter(latency, _simulateReceived, msg, binary) on the peer.
SendBody(q, s, job) ==
    IF ~ws[s].readyToUse
      THEN Reschedule(q, s, job)
    ELSE IF ws[s].peer # "none"
      THEN /\ ActorEnqueueAfter(q, ws[s].peer, net.latency,
                                Job("_simulateReceived", job.arg, job.msg))
           /\ UNCHANGED <<ws, sends, inbox, net>>
      ELSE /\ calls' = q
           /\ UNCHANGED <<ws, sends, inbox, net, timers>>

\* MockWebSocket::_simulateReceived: an open socket gives the message to its
\* delegate (onWebSocketMessage).
OnWebSocketMessage(s, msg) ==
    IF ws[s].isOpen THEN [inbox EXCEPT ![s] = Append(@, msg)] ELSE inbox

\* LoopbackWebSocket::_simulateReceived(msg, binary)
SimulateReceivedBody(q, s, job) ==
    IF ~ws[s].readyToUse
      THEN Reschedule(q, s, job)
      ELSE /\ inbox' = OnWebSocketMessage(s, job.msg)
           /\ IF ws[s].peer # "none"
                THEN /\ calls' = ActorEnqueue(q, ws[s].peer, Job("_ack", job.arg, job.msg))
                     /\ UNCHANGED net
                ELSE /\ \E o \in NullCallOutcomes : net' = NullCall(net, o)
                     /\ calls' = q
           /\ UNCHANGED <<ws, sends, timers>>

\* Mutant: every ack that leaves room in the buffer is reported.
Crossed_Below(newValue, msgSize) == newValue <= kSendBufferSize

\* Mutant: the buffer is reported writeable only when it is empty again.
Crossed_Empty(newValue, msgSize) == newValue = 0 /\ newValue + msgSize > kSendBufferSize

\* newValue <= kSendBufferSize && newValue + msgSize > kSendBufferSize
Crossed(newValue, msgSize) ==
    newValue <= kSendBufferSize /\ newValue + msgSize > kSendBufferSize

\* LoopbackWebSocket::_ack(msgSize)
AckBody(q, s, job) ==
    LET msgSize == job.arg
        newValue == ws[s].bufferedBytes - msgSize
    IN /\ sends' = [sends EXCEPT ![job.msg].acked = TRUE]
       /\ IF ~ws[s].isOpen
            THEN UNCHANGED <<ws, net>>
            ELSE /\ ws' = [ws EXCEPT ![s].bufferedBytes = newValue]
                 /\ net' = IF Crossed(newValue, msgSize)
                             THEN [net EXCEPT !.writeable[s] = @ + 1]
                             ELSE net
       /\ calls' = q
       /\ UNCHANGED <<inbox, timers>>

\* LoopbackWebSocket::_closed: _peer = nullptr
Closed(w) == [w EXCEPT !.peer = "none"]

\* MockWebSocket::_simulateClosed(status): an open socket becomes closed, its
\* delegate is told (onWebSocketClose) and _closed() is called.
SimulateClosed(w, s) ==
    IF w[s].isOpen THEN [w EXCEPT ![s] = Closed([@ EXCEPT !.isOpen = FALSE])] ELSE w

\* The close events the delegate of s has been given.
OnWebSocketClose(n, s, status) ==
    IF ws[s].isOpen THEN [n EXCEPT !.closes[s] = Append(@, status)] ELSE n

\* LoopbackWebSocket::_close(status, message): assert(_peer);
\* _peer->simulateClosed(kWebSocketClose, status, message, _latency), which is
\* enqueueAfter(latency, _simulateClosed, status) on the peer; then
\* MockWebSocket::_close, which closes this socket with the same status.
CloseBody(q, s, job) ==
    IF ~ws[s].readyToUse
      THEN Reschedule(q, s, job)
      ELSE /\ ws' = SimulateClosed(ws, s)
           /\ IF ws[s].peer # "none"
                THEN /\ ActorEnqueueAfter(q, ws[s].peer, net.latency,
                                          Job("_simulateClosed", job.arg, 0))
                     /\ net' = OnWebSocketClose(net, s, job.arg)
                ELSE /\ \E o \in NullCallOutcomes :
                          net' = NullCall(OnWebSocketClose(net, s, job.arg), o)
                     /\ calls' = q
                     /\ UNCHANGED timers
           /\ UNCHANGED <<sends, inbox>>

\* The _simulateClosed that the peer's _close posted.
SimulateClosedBody(q, s, job) ==
    /\ ws' = SimulateClosed(ws, s)
    /\ net' = OnWebSocketClose(net, s, job.arg)
    /\ calls' = q
    /\ UNCHANGED <<sends, inbox, timers>>

\* The mailbox of socket s runs its next call, from start to return.
RunCall(s) ==
    /\ ~net.crashed
    /\ calls[s] # <<>>
    /\ LET job == Head(calls[s])
           q == [calls EXCEPT ![s] = Tail(@)]
       IN CASE job.job = "_connectToPeer" -> ConnectToPeerBody(q, s, job)
            [] job.job = "_send" -> SendBody(q, s, job)
            [] job.job = "_simulateReceived" -> SimulateReceivedBody(q, s, job)
            [] job.job = "_ack" -> AckBody(q, s, job)
            [] job.job = "_close" -> CloseBody(q, s, job)
            [] job.job = "_simulateClosed" -> SimulateClosedBody(q, s, job)

\* dispatch_after submits a call whose time has come; calls come in the order
\* of their deadlines.
DueTimerFire(i) ==
    /\ ~net.crashed
    /\ timers[i].wait = 0
    /\ \A j \in 1..(i - 1) : timers[j].wait > 0
    /\ calls' = ActorEnqueue(calls, timers[i].to, timers[i].job)
    /\ timers' = [k \in 1..(Len(timers) - 1) |-> IF k < i THEN timers[k] ELSE timers[k + 1]]
    /\ UNCHANGED <<ws, sends, inbox, net>>

\* One unit of time passes, once every call whose time had come was submitted.
LoopbackTick ==
    /\ ~net.crashed
    /\ timers # <<>>
    /\ \A i \in DOMAIN timers : timers[i].wait > 0
    /\ timers' = [i \in DOMAIN timers |-> [timers[i] EXCEPT !.wait = @ - 1]]
    /\ UNCHANGED <<ws, sends, inbox, net, calls>>

InitLoopback ==
    /\ ws = [s \in Sockets |-> [delegate |-> FALSE, peer |-> "none", isOpen |-> FALSE,
                                readyToUse |-> FALSE, bufferedBytes |-> 0]]
    /\ sends = <<>>
    /\ inbox = [s \in Sockets |-> <<>>]
    /\ net = [made |-> FALSE, latency |-> 0, connectCalls |-> 0, reschedules |-> 0,
              crashed |-> FALSE,
              connected |-> [s \in Sockets |-> 0],
              writeable |-> [s \in Sockets |-> 0],
              closeCalled |-> [s \in Sockets |-> 0],
              closes |-> [s \in Sockets |-> <<>>]]
    /\ calls = [s \in Sockets |-> <<>>]
    /\ timers = <<>>

\* What the loopback operations leave alone.
notLoopbackVars == <<mailboxVars, messageVars, asyncVars, batcherVars, manifestVars>>

\* The application makes the provider, connects the two sockets and gives
\* them their delegates, in any order and at any time.
NextLoopbackSetup ==
    \/ \E l \in LoopLatencies : CreateProvider(l) /\ UNCHANGED notLoopbackVars
    \/ \E s \in Sockets : ConnectToPeer(s) /\ UNCHANGED notLoopbackVars
    \/ \E s \in Sockets : SetDelegate(s) /\ UNCHANGED notLoopbackVars

\* What the sockets' mailboxes and timers do.
NextLoopbackRun ==
    \/ \E i \in DOMAIN timers : DueTimerFire(i) /\ UNCHANGED notLoopbackVars
    \/ \E s \in Sockets : RunCall(s) /\ UNCHANGED notLoopbackVars
    \/ LoopbackTick /\ UNCHANGED notLoopbackVars

\* Two sockets that are connected and send each other messages.
NextLoopback ==
    \/ NextLoopbackSetup
    \/ \E s \in Sockets, z \in MessageSizes : Send(s, z) /\ UNCHANGED notLoopbackVars
    \/ NextLoopbackRun

\* The sockets that send and close in the model of one socket's send buffer.
FlowSenders == {"lc1"}
FlowStatuses == {1000}

\* Two sockets that are connected, one of which sends messages and closes.
NextLoopbackFlow ==
    \/ NextLoopbackSetup
    \/ \E s \in FlowSenders, z \in MessageSizes : Send(s, z) /\ UNCHANGED notLoopbackVars
    \/ \E s \in FlowSenders, st \in FlowStatuses : Close(s, st) /\ UNCHANGED notLoopbackVars
    \/ NextLoopbackRun

\* Two sockets that are connected, one of which sends messages.
NextLoopbackOneWay ==
    \/ NextLoopbackSetup
    \/ \E s \in FlowSenders, z \in MessageSizes : Send(s, z) /\ UNCHANGED notLoopbackVars
    \/ NextLoopbackRun

\* Two sockets that are connected and closed.
NextLoopbackClose ==
    \/ NextLoopbackSetup
    \/ \E s \in Sockets, st \in CloseStatuses : Close(s, st) /\ UNCHANGED notLoopbackVars
    \/ NextLoopbackRun

(***************************************************************************)
(*                            Specifications                                *)
(***************************************************************************)

Init ==
    /\ InitMailbox /\ InitMessage /\ InitAsync /\ InitBatcher /\ InitLoopback
    /\ InitManifest

SpecMailbox == Init /\ [][NextMailbox]_vars

\* The mailbox with callers that only call enqueue.
NextMailboxDrain ==
    \/ \E c \in Callers, m \in Mailboxes : CallEnqueue(c, m)
    \/ \E m \in Mailboxes : StartThunk(m) /\ UNCHANGED notMailboxVars
    \/ \E i \in ThunkIds, threw \in BOOLEAN : FinishThunk(i, threw) /\ UNCHANGED notMailboxVars

\* GCD runs every block that was submitted to a queue once the queue is free,
\* and the blocks of the model return or throw.
FairMailbox ==
    /\ WF_vars(\E m \in Mailboxes : StartThunk(m) /\ UNCHANGED notMailboxVars)
    /\ WF_vars(\E i \in ThunkIds, threw \in BOOLEAN :
                  FinishThunk(i, threw) /\ UNCHANGED notMailboxVars)

SpecMailboxFair == Init /\ [][NextMailboxDrain]_vars /\ FairMailbox

SpecManifest == Init /\ [][NextManifest]_vars

SpecMessageOut == Init /\ [][NextMessageOut]_vars

SpecFlowControl == Init /\ [][NextFlowControl]_vars

SpecAsync == Init /\ [][NextAsync]_vars

SpecAsyncResult == Init /\ [][NextAsyncResult]_vars

SpecAsyncObservers == Init /\ [][NextAsyncObservers]_vars

\* Every thread that is in the middle of a call goes on with it.
FairThreads == \A t \in Threads : WF_vars(ThreadStep(ThreadCaller(t)))

SpecAsyncFair == Init /\ [][NextAsyncThreads]_vars /\ FairThreads

SpecBatcher == Init /\ [][NextBatcher]_vars

SpecLoopback == Init /\ [][NextLoopback]_vars

SpecLoopbackFlow == Init /\ [][NextLoopbackFlow]_vars

\* GCD runs every call that was submitted to a mailbox, dispatch_after submits
\* every call whose time has come, and time goes on.
FairLoopback == WF_vars(NextLoopbackRun)

SpecLoopbackFair == Init /\ [][NextLoopbackOneWay]_vars /\ FairLoopback

SpecLoopbackFlowFair == Init /\ [][NextLoopbackFlow]_vars /\ FairLoopback

SpecLoopbackClose == Init /\ [][NextLoopbackClose]_vars

SpecLoopbackCloseFair == Init /\ [][NextLoopbackClose]_vars /\ FairLoopback

Finished(i) == thunks[i].st \in {"done", "caught"}
Started(i) == thunks[i].st = "running" \/ Finished(i)

\* C1: at most one thunk of a given mailbox is executing at any time, whatever
\* threads call enqueue / enqueueAfter and whether or not the mailbox shares a
\* parent queue with another one.
C1_MutualExclusion ==
    \A m \in Mailboxes : Cardinality({i \in Running : thunks[i].mb = m}) <= 1

\* C1 happens: a thunk of a mailbox is running while a thunk that another
\* thread put on the same mailbox is waiting in the queue.
C1_Witness ==
    \E i \in Running : \E j \in ThunkIds :
        /\ thunks[j].mb = thunks[i].mb
        /\ thunks[j].st = "queued"
        /\ thunks[i].caller.thunk = 0 /\ thunks[j].caller.thunk = 0
        /\ thunks[i].caller # thunks[j].caller

C3_UnackedWithinSent ==
    0 <= mo.unackedBytes /\ mo.unackedBytes <= mo.bytesSent

\* C3 happens: frames went out and acks came in, and part of what was sent is
\* still unacknowledged.
C3_Witness ==
    /\ Len(frames) >= 2
    /\ io.acks >= 1
    /\ 0 < mo.unackedBytes /\ mo.unackedBytes < mo.bytesSent

\* A step that is a call of receivedAck.
IsReceivedAck == io'.acks # io.acks

\* C4 as stated: receivedAck(cumulativeBytes) sets unackedBytes to
\* min(unackedBytes, bytesSent - cumulativeBytes), for any cumulative count.
C4_AckSetsMin ==
    [][IsReceivedAck =>
         mo'.unackedBytes = Min(mo.unackedBytes, mo.bytesSent - io'.lastAck)]_vars

\* C4 as amended: receivedAck(cumulativeBytes) sets unackedBytes to
\* min(unackedBytes, bytesSent - cumulativeBytes) when cumulativeBytes is at
\* most bytesSent and leaves it unchanged otherwise; it never increases it.
C4_AckSetsMinUpToSent ==
    [][IsReceivedAck =>
         /\ io'.lastAck <= mo.bytesSent =>
              mo'.unackedBytes = Min(mo.unackedBytes, mo.bytesSent - io'.lastAck)
         /\ io'.lastAck > mo.bytesSent => mo'.unackedBytes = mo.unackedBytes
         /\ mo'.unackedBytes <= mo.unackedBytes]_vars

\* C4 happens: a stale ack came in, one that acknowledges less than an earlier
\* ack did, and unackedBytes kept its smaller value.
C4_Witness ==
    /\ io.acks >= 2
    /\ io.lastAck <= mo.bytesSent
    /\ mo.unackedBytes < mo.bytesSent - io.lastAck

\* The bytes of content a message has: its payload and everything its data
\* source has to give.
RECURSIVE SumPositive(_)
SumPositive(q) ==
    IF q = <<>> THEN 0
    ELSE (IF Head(q) > 0 THEN Head(q) ELSE 0) + SumPositive(Tail(q))
ContentSize == io.payloadSize + SumPositive(src.plan)

\* C5: for a message that is no ack and whose data source ends (with EOF), the
\* frames are finitely many, every frame but the last has MoreComing, the last
\* one has not, and once a frame came without MoreComing hasMoreDataToSend is
\* and stays false.
C5_LastFrameEndsMessage ==
    (io.pc # "new" /\ ~IsAck(mo.flags) /\ ~src.failed) =>
        /\ \A i \in 1..(Len(frames) - 1) : frames[i].moreComing
        /\ io.pc = "final" => (frames # <<>> /\ ~Last(frames).moreComing)
        /\ io.pc = "open" => (frames = <<>> \/ Last(frames).moreComing)
        /\ (frames # <<>> /\ ~Last(frames).moreComing) => ~HasMoreDataToSend(ct)
        /\ Len(frames) <= 1 + ContentSize + Len(src.plan)
        /\ io.pc = "open" => Len(frames) < MaxFrames

\* C5 happens: a message with a payload and a data source went out in several
\* frames, the last of them without MoreComing.
C5_Witness ==
    /\ io.pc = "final"
    /\ ~IsAck(mo.flags) /\ ~src.failed
    /\ io.payloadSize > 0 /\ src.supplied >= kDataBufferSize
    /\ Len(frames) >= 3
    /\ ~Last(frames).moreComing

RECURSIVE SumPayload(_)
SumPayload(q) == IF q = <<>> THEN 0 ELSE Head(q).payload + SumPayload(Tail(q))

\* C6: in Raw mode the payloads of the frames of a message, one after the
\* other, are the message's payload followed by the bytes its data source
\* supplied, in order; so their sizes add up to the length of the content.
C6_RawFramesCarryContent ==
    (io.pc # "new" /\ ~IsAck(mo.flags) /\ ~mo.flags.compressed /\ ~src.failed) =>
        /\ sentData = IF SumPayload(frames) = 0 THEN <<>>
                      ELSE <<[from |-> 0, to |-> SumPayload(frames)]>>
        /\ SumPayload(frames) <= io.payloadSize + src.supplied
        /\ io.pc = "final" => SumPayload(frames) = io.payloadSize + src.supplied

\* C6 happens: an uncompressed message with a payload and a data source that
\* filled its buffer has been sent completely.
C6_Witness ==
    /\ io.pc = "final"
    /\ ~IsAck(mo.flags) /\ ~mo.flags.compressed /\ ~src.failed
    /\ io.payloadSize > 0
    /\ src.supplied >= kDataBufferSize
    /\ SumPayload(frames) = io.payloadSize + src.supplied

\* The last thing the progress callback heard is the disconnect.
DisconnectReported == progress # <<>> /\ Last(progress).state = "Disconnected"

C8_ResponsePlaceholder ==
    response.called =>
        /\ response.in.created <=> (mo.flags.type = "Request" /\ ~mo.flags.noReply)
        /\ response.in.created =>
             /\ response.in.type = "Response"
             /\ response.in.number = mo.number
             /\ response.in.onProgress = mo.onProgress
             /\ response.in.outgoingSize = mo.uncompressedBytesSent

\* C8 happens: createResponse was called on a request that expects a reply,
\* after its content went out.
C8_Witness ==
    /\ response.called
    /\ response.in.created
    /\ response.in.outgoingSize > 0

\* C9: an async function that suspended inside an actor's thunk is continued
\* by a thunk on that actor's mailbox (via wakeAsyncProvider), never by a call
\* on the thread that calls setResult; one that suspended outside any actor is
\* continued by a call inside the setResult call.
C9_ContinuationContext ==
    \A n \in 1..Len(resumes) :
        LET e == resumes[n] IN
        /\ e.suspendedOn # "none" =>
              /\ e.via = "thunk"
              /\ e.on = e.suspendedOn
              /\ e.by # e.wokenBy
        /\ e.suspendedOn = "none" =>
              /\ e.via = "wakeUp"
              /\ e.by = e.wokenBy

\* C9 happens: the function suspended outside any actor and was continued
\* inside a setResult call made in an actor's thunk; there it suspended again,
\* and was continued by a thunk of that actor.
C9_Witness ==
    /\ Len(resumes) = 2
    /\ resumes[1].suspendedOn = "none" /\ resumes[1].via = "wakeUp"
    /\ resumes[1].on # "none"
    /\ resumes[2].suspendedOn = resumes[1].on /\ resumes[2].via = "thunk"

\* A call of next() on p is under way or waits in a mailbox.
NextPending(p) ==
    \/ \E c \in Contexts : \E n \in 1..Len(stack[c]) :
          stack[c][n].fn = "next" /\ stack[c][n].p = p
    \/ \E i \in ThunkIds : thunks[i].block = NextJob(p) /\ thunks[i].st = "queued"

\* A call of _gotResult() on a is under way.
GotResultPending(a) ==
    \E c \in Contexts : \E n \in 1..Len(stack[c]) :
        stack[c][n].fn = "gotResult" /\ stack[c][n].p = a

\* p has suspended on a value that has become available, and nothing that is
\* still to happen resumes it.
LostWakeUp(p) ==
    /\ prov[p].waitingOn # "none"
    /\ prov[prov[p].waitingOn].ready
    /\ ~GotResultPending(prov[p].waitingOn)
    /\ ~NextPending(p)

\* C10: an async function that suspends on a value that is not yet available
\* is resumed exactly once after the value becomes available, whatever the
\* interleaving of setResult with the suspension: no wake-up is lost, and no
\* await is resumed twice.
C10_ResumedExactlyOnce ==
    /\ \A p \in Functions : ~LostWakeUp(p)
    /\ \A m, n \in 1..Len(resumes) :
          (resumes[m].p = resumes[n].p /\ resumes[m].continueAt = resumes[n].continueAt)
             => m = n

\* The thunks of mailbox m that have been enqueued and have not finished.
Pending(m) == {i \in ThunkIds : thunks[i].mb = m /\ ~Finished(i)}

\* C15: a std::exception thrown by a thunk is caught at the mailbox, the
\* actor's caughtException hook runs and the manifest is dumped, afterEvent
\* still runs, and the thunks that wait on that mailbox or are enqueued later
\* still execute.
C15_ExceptionCaught ==
    /\ [](\A i \in ThunkIds :
            /\ thunks[i].st \in {"timer", "queued", "running", "done", "caught"}
            /\ thunks[i].st = "caught" => thunks[i].dumped = thunks[i].manifest
            /\ thunks[i].st # "caught" => thunks[i].dumped = 0)
    /\ [](\A m \in Mailboxes : eventCount[m] = Cardinality(Pending(m)))
    /\ \A i, j \in 1..MaxThunks :
          (/\ i \in ThunkIds /\ j \in ThunkIds
           /\ thunks[i].st = "caught"
           /\ thunks[j].mb = thunks[i].mb)
             ~> (j \in ThunkIds /\ Finished(j))

\* C15 happens: a thunk threw, and a thunk enqueued later on the same mailbox
\* has run to its end.
C15_Witness ==
    \E i, j \in ThunkIds :
        /\ i < j
        /\ thunks[i].st = "caught" /\ thunks[i].dumped # 0
        /\ thunks[j].mb = thunks[i].mb
        /\ thunks[j].st = "done"
        /\ eventCount[thunks[i].mb] = 0

\* C16: enqueue called on a mailbox from inside a thunk this mailbox is running
\* returns without running the new thunk, which starts only after the running
\* thunk and its afterEvent have finished.
C16_EnqueueNeverRecurses ==
    \A j \in ThunkIds :
        LET c == thunks[j].caller IN
        (c.thunk # 0 /\ thunks[c.thunk].mb = thunks[j].mb /\ thunks[j].kind = "enqueue")
           => /\ Started(j) => Finished(c.thunk)
              /\ ~Finished(c.thunk) => eventCount[thunks[j].mb] >= 2

\* C16 happens: a thunk enqueued by a thunk of the same mailbox is running, and
\* the thunk that enqueued it has finished.
C16_Witness ==
    \E j \in Running :
        LET c == thunks[j].caller IN
        /\ c.thunk # 0
        /\ thunks[c.thunk].mb = thunks[j].mb
        /\ thunks[j].kind = "enqueue"
        /\ Finished(c.thunk)

\* The thunk was put on the queue by the call itself.
Immediate(i) == thunks[i].kind = "enqueue" \/ thunks[i].delay <= 0

\* C17: a thunk given to enqueueAfter(d) with d > 0 does not start before d has
\* passed since the call; with d <= 0 it is queued at once, as by enqueue, and
\* keeps FIFO order with the enqueue calls of the same thread.
C17_DelayRespected ==
    /\ \A i \in ThunkIds :
          (thunks[i].kind = "after" /\ thunks[i].delay > 0 /\ Started(i))
             => thunks[i].age >= thunks[i].delay
    /\ \A i \in ThunkIds :
          (thunks[i].kind = "after" /\ thunks[i].delay <= 0)
             => thunks[i].st # "timer"
    /\ \A a, b \in ThunkIds :
          (/\ a < b
           /\ thunks[a].caller = thunks[b].caller
           /\ thunks[a].mb = thunks[b].mb
           /\ Immediate(a) /\ Immediate(b)
           /\ "after" \in {thunks[a].kind, thunks[b].kind}
           /\ Started(b))
             => Finished(a)

\* C17 happens: a thunk enqueued with a delay has run after its delay had
\* passed, and so has a thunk the same thread then gave to enqueueAfter
\* without delay on the same mailbox.
C17_Witness ==
    \E a, b \in ThunkIds :
          /\ a < b
          /\ thunks[a].caller = thunks[b].caller /\ thunks[a].mb = thunks[b].mb
          /\ thunks[a].kind = "after" /\ thunks[a].delay > 0 /\ Finished(a)
          /\ thunks[a].age >= thunks[a].delay
          /\ thunks[b].kind = "after" /\ thunks[b].delay <= 0
          /\ Finished(b)

\* What the data source answered when it was called last.
LastAnswer == IF src.pos - 1 <= Len(src.plan) THEN src.plan[src.pos - 1] ELSE 0

\* C20: a message with a data source is finished (hasMoreDataToSend false, the
\* source called no more) only after the source has returned zero or a
\* negative value; after a positive return, even one smaller than the buffer,
\* the source is called again.
C20_FinishedOnlyAfterEof ==
    (io.pc # "new" /\ src.plan # <<>> /\ ~HasMoreDataToSend(ct))
        => (src.pos > 1 /\ LastAnswer <= 0)

\* C18: pop returns all the items pushed since the previous pop, in the order
\* they were pushed, and leaves the queue empty; it returns nullptr when
\* nothing was pushed since the previous pop.
C18_PopReturnsBatch ==
    \A n \in 1..Len(pops) :
        LET e == pops[n] IN
        /\ e.result.v = SubSeq(pushed, e.from + 1, e.to)
        /\ e.result.null <=> e.from = e.to
        /\ e.left = NoItems

\* C18 happens: pop has returned a batch of several items, and after it a call
\* of pop with nothing pushed in between has returned nullptr.
C18_Witness ==
    \E m, n \in 1..Len(pops) :
        /\ m < n
        /\ Len(pops[m].result.v) >= 2
        /\ pops[n].result.null

\* C19: unless the batch has reached capacity, or its first push came more
\* than latency after the last pop, the processor call that pops a batch runs
\* no earlier than latency after the first item of the batch was pushed.
C19_PopNotBeforeLatency ==
    \A n \in 1..Len(pops) :
        LET e == pops[n] IN
        (/\ ~e.result.null
         /\ ~(bt.capacity > 0 /\ Len(e.result.v) >= bt.capacity)
         /\ ~e.firstLate)
            => e.firstAge >= bt.latency

\* C11 as stated: the delegate of a socket is given the messages of its peer in
\* the order in which send was called, whenever connectToPeer is called, the
\* delegates are installed, and whatever the latency.
C11_DeliveredInSendOrder ==
    \A s \in Sockets : \A a, b \in DOMAIN inbox[s] :
        a < b => inbox[s][a] < inbox[s][b]

\* A step that is a call of send.
IsSend == Len(sends') = Len(sends) + 1

\* C12 as stated: send returns false exactly when the total size of the
\* messages sent and not yet acknowledged, the one being sent included, is
\* more than 32768 bytes; and whatever it returns, the message is handed on:
\* _send is posted for it on the sender's mailbox.
C12_SendRefusesAboveBuffer ==
    /\ [](\A k \in DOMAIN sends :
            sends[k].ok <=> ~(sends[k].outstanding > 32768))
    /\ [][IsSend =>
            LET k == Len(sends')
                q == calls'[sends'[k].from]
            IN q # <<>> /\ q[Len(q)] = Job("_send", sends'[k].size, k)]_vars

\* C12 as amended: on a socket that has not closed, send returns false exactly
\* when the total size of the messages sent and not yet acknowledged, the one
\* being sent included, is more than 32768 bytes; and on any socket, whatever
\* send returns, _send is posted for the message on the sender's mailbox.
C12_SendRefusesAboveBufferWhileOpen ==
    /\ [](\A k \in DOMAIN sends :
            ~sends[k].wasClosed =>
                (sends[k].ok <=> ~(sends[k].outstanding > 32768)))
    /\ [][IsSend =>
            LET k == Len(sends')
                q == calls'[sends'[k].from]
            IN q # <<>> /\ q[Len(q)] = Job("_send", sends'[k].size, k)]_vars

\* C12 happens: a send that returned false because earlier messages were not
\* yet acknowledged, and its message has reached the peer's delegate; and a
\* send that filled the buffer exactly returned true.
C12_Witness ==
    /\ \E k \in DOMAIN sends :
          /\ ~sends[k].ok
          /\ sends[k].size <= kSendBufferSize
          /\ \E a \in DOMAIN inbox[OtherSocket(sends[k].from)] :
                inbox[OtherSocket(sends[k].from)][a] = k
    /\ \E k \in DOMAIN sends : sends[k].ok /\ sends[k].outstanding = kSendBufferSize

\* Socket s is open, connected to its peer and ready, and so is the peer.
Connected(s) ==
    /\ ws[s].isOpen /\ ws[s].readyToUse
    /\ ws[OtherSocket(s)].isOpen /\ ws[OtherSocket(s)].readyToUse

\* Send number k returned false, and its caller has not sent since.
StoppedAfter(k) ==
    /\ k \in DOMAIN sends
    /\ ~sends[k].ok
    /\ \A j \in DOMAIN sends : j > k => sends[j].from # sends[k].from

\* The delegate of the sender of k was told onWebSocketWriteable after send k.
WriteableSince(k) == net.writeable[sends[k].from] > sends[k].writeables

\* A step in which the delegate of s is told onWebSocketWriteable.
IsWriteable(s) == net'.writeable[s] # net.writeable[s]

HeardClose(s, status) == \E a \in DOMAIN net.closes[s] : net.closes[s][a] = status

\* C14 as stated: when close(status) is called on one of two connected sockets,
\* the delegate of the other is eventually given a close event with the same
\* status, in every ordering of what the two sides do.
C14_PeerHearsClose ==
    \A s \in Sockets : \A status \in CloseStatuses :
        (net.closeCalled[s] = status /\ Connected(s))
            ~> HeardClose(OtherSocket(s), status)

\* The processor calls that were scheduled on the actor and have not yet run.
PendingProcessorCalls ==
    {i \in ThunkIds : thunks[i].block = ProcessorJob
                      /\ thunks[i].st \in {"timer", "queued", "running"}}

\* C30: whenever the Batcher holds an item that has not been popped, _scheduled
\* is true and a processor call is scheduled on the actor and has not yet run.
C30_ItemsHavePendingCall ==
    (~bt.items.null /\ bt.items.v # <<>>) =>
        (bt.scheduled /\ PendingProcessorCalls # {})

\* C30 happens: after a pop, items were pushed again and wait for the next
\* processor call.
C30_Witness ==
    /\ Len(pops) >= 1
    /\ ~bt.items.null /\ Len(bt.items.v) >= 1
    /\ bt.scheduled
    /\ PendingProcessorCalls # {}

\* ---------------------------------------------------------------------------
\* C22. The frame of an ack: nextFrameToSend copies the ack's body into dst as
\* it is (no codec output, no checksum), returns the message's flags without
\* MoreComing, adds the size of the body to bytesSent, leaves unackedBytes and
\* uncompressedBytesSent alone and reports no progress.
AckFrameStep ==
    /\ io.pc = "open"
    /\ IsAck(mo.flags)
    /\ Len(frames') = Len(frames) + 1

C22_AckFrameIsPlainCopy ==
    [][AckFrameStep =>
         LET body == ct.unsentPayload.size
             f == Last(frames')
         IN /\ f.size = body
            /\ f.payload = body
            /\ ~f.checksum
            /\ ~f.moreComing
            /\ mo'.flags = mo.flags
            /\ mo'.bytesSent = mo.bytesSent + body
            /\ mo'.unackedBytes = mo.unackedBytes
            /\ mo'.uncompressedBytesSent = mo.uncompressedBytesSent
            /\ progress' = progress]_vars

\* An ack with a 3-byte body has gone out as one frame of 3 bytes.
C22_Witness ==
    /\ IsAck(mo.flags)
    /\ Len(frames) = 1
    /\ frames[1].size = 3
    /\ ~frames[1].checksum
    /\ mo.bytesSent = 3
    /\ mo.unackedBytes = 0
    /\ progress = <<>>

\* ---------------------------------------------------------------------------
\* C23. Every frame of a message that is no ack has MoreComing exactly when
\* hasMoreDataToSend is true once the frame is written, and is followed by
\* exactly one progress notification: Sending when more data remains,
\* otherwise Complete for a NoReply message, otherwise AwaitingReply.
MessageFrameStep ==
    /\ io.pc = "open"
    /\ ~IsAck(mo.flags)
    /\ Len(frames') = Len(frames) + 1

C23_MoreComingAndProgress ==
    [][MessageFrameStep =>
         LET more == HasMoreDataToSend(ct')
         IN /\ Last(frames').moreComing = more
            /\ Len(progress') = Len(progress) + 1
            /\ SubSeq(progress', 1, Len(progress)) = progress
            /\ Last(progress').state =
                 (IF more THEN "Sending"
                  ELSE IF mo.flags.noReply THEN "Complete"
                  ELSE "AwaitingReply")]_vars

\* A NoReply message went out in several frames: Sending was reported after
\* each frame but the last, Complete after the last.
C23_Witness ==
    /\ io.pc = "final"
    /\ ~IsAck(mo.flags) /\ mo.flags.noReply
    /\ Len(frames) >= 2
    /\ Len(progress) = Len(frames)
    /\ \A i \in 1..(Len(frames) - 1) :
         frames[i].moreComing /\ progress[i].state = "Sending"
    /\ ~Last(frames).moreComing
    /\ Last(progress).state = "Complete"

\* ---------------------------------------------------------------------------
\* C24. A frame of a message that is no ack never exceeds the capacity of dst:
\* it carries at most capacity - 4 bytes of payload and then the 4-byte
\* checksum. The write loop stops pulling data as soon as dst has fewer than
\* 1024 bytes left or Contents has no data left: no slice after the first is
\* pulled with less room than that, and a frame the loop left with that much
\* room or more is the message's last.
C24_FrameWithinCapacity ==
    (io.pc # "new" /\ ~IsAck(mo.flags)) =>
        \A i \in 1..Len(frames) :
            LET f == frames[i] IN
            /\ f.checksum
            /\ f.size = f.payload + kChecksumSize
            /\ f.payload >= 0 /\ f.payload <= io.cap - kChecksumSize
            /\ f.size <= io.cap
            /\ f.room >= 0
            /\ f.pulls >= 2 => f.roomAtPull >= kMinRoom
            /\ f.room >= kMinRoom => ~f.moreComing

\* A frame was filled to the last byte of dst by two slices (the payload, then
\* bytes of the data source), and the message goes on.
C24_Witness ==
    /\ ~IsAck(mo.flags)
    /\ \E i \in 1..Len(frames) :
         /\ frames[i].size = io.cap
         /\ frames[i].pulls >= 2
         /\ frames[i].moreComing

\* ---------------------------------------------------------------------------
\* C25. When the codec still holds unflushed bytes at the end of a frame's
\* write loop, nextFrameToSend fails ("Compression buffer overflow"): no
\* checksum is written and no frame goes out, bytesSent and unackedBytes keep
\* their values, and no progress is reported for that frame.
C25_OverflowStopsFrame ==
    [][(io.pc = "open" /\ io'.unflushed > 0) =>
         /\ io'.pc = "failed"
         /\ frames' = frames
         /\ mo'.bytesSent = mo.bytesSent
         /\ mo'.unackedBytes = mo.unackedBytes
         /\ progress' = progress]_vars

\* A compressed message sent one frame, and its second frame failed with the
\* codec holding unflushed bytes.
C25_Witness ==
    /\ io.pc = "failed"
    /\ io.unflushed > 0
    /\ mo.flags.compressed
    /\ Len(frames) = 1 /\ Len(progress) = 1
    /\ mo.bytesSent = frames[1].size
    /\ mo.uncompressedBytesSent > progress[1].bytesSent

\* ---------------------------------------------------------------------------
\* C26. Once the data source of a message has reached its end (it has been
\* dropped and every byte it supplied has been handed out), Contents holds no
\* pull buffer any more.
C26_BufferReleasedAtEof ==
    (io.pc # "new" /\ src.plan # <<>> /\ ~ct.dataSource /\ UnsentDataEmpty(ct))
        => ~ct.dataBuffer

\* ---------------------------------------------------------------------------
\* C28. After every addEnqueueCall or addExecution a ChannelManifest holds at
\* most `limit` enqueue entries and at most `limit` execution entries; the
\* oldest entries are dropped first; and for each list the entries retained
\* plus the truncation counter are the entries ever added.
IsSuffix(list, all) ==
    /\ Len(list) <= Len(all)
    /\ list = SubSeq(all, Len(all) - Len(list) + 1, Len(all))

C28_ListsWithinLimit ==
    cmLog.last \in {"addEnqueueCall", "addExecution"} =>
        /\ Len(cm.enqueueCalls) <= cm.limit
        /\ Len(cm.executions) <= cm.limit
        /\ IsSuffix(cm.enqueueCalls, cmLog.enqueueCalls)
        /\ IsSuffix(cm.executions, cmLog.executions)
        /\ Len(cm.enqueueCalls) + cm.truncatedEnqueue = Len(cmLog.enqueueCalls)
        /\ Len(cm.executions) + cm.truncatedExecution = Len(cmLog.executions)

\* ---------------------------------------------------------------------------
\* C29. An enqueue or enqueueAfter made from inside a running thunk records
\* into the manifest of that thunk and hands it to the new thunk; one made
\* outside any thunk starts a fresh manifest. While a thunk runs, its thread's
\* current manifest is the one the thunk captured when it was enqueued, and
\* when the thunk has finished the thread's current manifest is null again.
Recorded(list, i) == \E k \in 1..Len(list) : list[k].elapsed = i

C29_ManifestInherited ==
    /\ \A i \in ThunkIds :
         LET c == thunks[i].caller
             mf == thunks[i].manifest
         IN /\ c.thunk # 0 => mf = thunks[c.thunk].manifest
            /\ c.thunk = 0 => (mf = i /\ \A j \in 1..(i - 1) : thunks[j].manifest # i)
            /\ Recorded(manifests[mf].enqueueCalls, i)
            /\ thunks[i].st \in {"timer", "queued"} => ~Recorded(manifests[mf].executions, i)
            /\ thunks[i].st = "running" =>
                 /\ sCurrentManifest[WorkerThread(thunks[i].mb)] = mf
                 /\ Recorded(manifests[mf].executions, i)
    /\ \A t \in AllThreads :
         (\A i \in Running : WorkerThread(thunks[i].mb) # t) => sCurrentManifest[t] = 0

\* A thunk that was enqueued from a thread has finished; while it ran it
\* enqueued a second thunk, which runs now with the first one's manifest,
\* and that manifest holds both enqueue calls and both executions.
C29_Witness ==
    /\ Len(thunks) = 2
    /\ thunks[1].caller.thunk = 0 /\ thunks[1].st = "done"
    /\ thunks[2].caller.thunk = 1 /\ thunks[2].st = "running"
    /\ WorkerThread(thunks[2].mb) = WorkerThread(thunks[1].mb)
    /\ sCurrentManifest[WorkerThread(thunks[2].mb)] = 1
    /\ Len(manifests[1].enqueueCalls) = 2
    /\ Len(manifests[1].executions) = 2

\* ---------------------------------------------------------------------------
\* C21. ready() of an Async is false until setResult has been called on its
\* provider or, for an async function, its body has returned without waiting;
\* result() called while ready() is false is an assertion failure (abort);
\* and once ready() is true it never becomes false again.
ResultAvailable(p) ==
    IF p \in Promises THEN [job |-> "setResult", p |-> p] \notin todo
    ELSE /\ [job |-> "call", p |-> p] \notin todo
         /\ prov[p].continueAt = Len(Awaits(p))
         /\ prov[p].waitingOn = "none"

C21_ReadyAndResult ==
    [][\A p \in Providers :
         /\ prov'[p].ready => ResultAvailable(p)'
         /\ prov[p].ready => prov'[p].ready
         /\ (prov'[p].resultCall # prov[p].resultCall /\ ~prov[p].ready)
               => prov'[p].resultCall = "abort"]_vars

\* ---------------------------------------------------------------------------
\* C27. An async function whose body awaits n Async values in sequence goes
\* on at the statement after each await, in order, and does not suspend on a
\* value that is ready; its own Async becomes ready once, after the last
\* awaited value is available, and then its observer is woken, so that a
\* chain of awaits completes once the values it awaits have been provided.
FunctionCalled(f) == [job |-> "call", p |-> f] \notin todo

AllProvided(f) ==
    \A k \in 1..Len(Awaits(f)) : prov[Awaits(f)[k]].ready

AwaitsInOrder ==
    \A f \in Functions :
        /\ prov[f].continueAt \in 0..Len(Awaits(f))
        \* the resumptions of f are those of its awaits 1, 2, ... in this order
        /\ LET rs == SelectSeq(resumes, LAMBDA r : r.p = f)
           IN \A k \in 1..Len(rs) : rs[k].continueAt >= k
                                    /\ (k > 1 => rs[k].continueAt > rs[k - 1].continueAt)
        \* f is ready only when its body is past the last await and every
        \* awaited value is available
        /\ prov[f].ready => (prov[f].continueAt = Len(Awaits(f)) /\ AllProvided(f))

C27_AwaitChainCompletes ==
    /\ []AwaitsInOrder
    /\ [][\A f \in Functions :
            /\ prov'[f].continueAt \in {prov[f].continueAt, prov[f].continueAt + 1}
            /\ prov[f].ready => prov'[f].ready]_vars
    /\ \A f \in Functions : (FunctionCalled(f) /\ AllProvided(f)) ~> prov[f].ready

\* ---------------------------------------------------------------------------
\* C36. receivedAck with a cumulative byte count greater than bytesSent is
\* ignored: unackedBytes and bytesSent keep their values, and nothing is
\* reported or failed.
C36_AckBeyondSentIgnored ==
    [][(IsReceivedAck /\ io'.lastAck > mo.bytesSent) =>
         /\ mo' = mo
         /\ progress' = progress
         /\ io'.pc = io.pc /\ io'.held = io.held
         /\ UNCHANGED <<ct, src, frames, sentData, response>>]_vars

\* An ack of more than was sent has come in while bytes were unacknowledged,
\* and they still are.
C36_Witness ==
    /\ io.acks >= 1
    /\ io.lastAck > mo.bytesSent
    /\ mo.bytesSent > 0
    /\ mo.unackedBytes = mo.bytesSent
    /\ io.pc = "open"

\* The content bytes that have left Contents: the consumed part of the payload
\* and the consumed part of what the data source supplied.
ContentConsumed ==
    (io.payloadSize - ct.unsentPayload.size) + (src.supplied - ct.unsentData.size)

\* C33: while the data source has not failed, uncompressedBytesSent of a
\* message that is not an ack is the number of content bytes the codec has
\* consumed from Contents so far; once the last frame has been produced it is
\* the length of the whole content (the payload and all the data source
\* supplied); and each frame's progress notification reports it as bytesSent.
C33_UncompressedBytesSent ==
    /\ []((~IsAck(mo.flags) /\ io.pc # "new" /\ ~src.failed /\ ~ct.wild) =>
            /\ mo.uncompressedBytesSent = ContentConsumed
            /\ io.pc = "final" =>
                 mo.uncompressedBytesSent = io.payloadSize + src.supplied)
    /\ [][(MessageFrameStep /\ Len(progress') > Len(progress)) =>
            Last(progress').bytesSent = mo'.uncompressedBytesSent]_vars

C33_Witness ==
    /\ ~IsAck(mo.flags) /\ ~src.failed /\ mo.flags.compressed
    /\ io.pc = "final"
    /\ Len(frames) >= 2
    /\ io.payloadSize > 0 /\ src.supplied > 0
    /\ frames[1].pulls >= 2
    /\ Len(progress) >= 2
    /\ progress[1].bytesSent > 0
    /\ progress[1].bytesSent < Last(progress).bytesSent
    /\ Last(progress).bytesSent = io.payloadSize + src.supplied

\* C37: once the data source has returned a negative value it has been
\* dropped, that call was the last one made to it, and no bytes of the failed
\* read (bytes that are not message content) have been sent as message data.
C37_NegativeReadEndsData ==
    src.failed =>
        /\ ~ct.dataSource
        /\ src.plan[src.pos - 1] < 0
        /\ ~ct.wild
        /\ \A i \in 1..Len(sentData) : sentData[i].from # -1

\* C34: _eventCount of a mailbox is the number of thunks that enqueue or
\* enqueueAfter has put on it and that have not finished, and so is the number
\* of retains of the actor the mailbox holds: one per enqueued thunk, given
\* back when the thunk has finished, whether it returned or threw. Both are
\* zero when the mailbox is drained and positive while a thunk is pending.
C34_EventCountAndRetains ==
    \A m \in Mailboxes :
        /\ eventCount[m] = Cardinality(Pending(m))
        /\ retains[m] = Cardinality(Pending(m))
        /\ Pending(m) = {} => eventCount[m] = 0 /\ retains[m] = 0
        /\ Pending(m) # {} => retains[m] > 0

\* C34 happens: a mailbox has run a thunk of enqueueAfter that threw and a
\* thunk of enqueue that returned, and is drained.
C34_Witness ==
    \E i, j \in ThunkIds :
        /\ thunks[i].mb = thunks[j].mb
        /\ thunks[i].kind = "after" /\ thunks[i].delay > 0 /\ thunks[i].st = "caught"
        /\ thunks[j].kind = "enqueue" /\ thunks[j].st = "done"
        /\ eventCount[thunks[i].mb] = 0
        /\ retains[thunks[i].mb] = 0

\* The calls of wakeUp that are about to be made: the provider making the call
\* and the observer it took from _observer.
WakeUpCalls ==
    {[by |-> Top(c).p, observer |-> Top(c).observer] :
        c \in {x \in Contexts : At(x, "gotResult", "wakeUp") /\ Top(x).observer # "none"}}

\* C35: a provider has one observer at most, and a second registration does
\* not go through (it is an assertion failure); when a provider wakes its
\* observer it has cleared the registration, the observer is waiting on that
\* provider, and no await is resumed more than once.
C35_OneObserverOneWakeUp ==
    /\ \A a \in AllProviders :
          /\ prov[a].observer \in {"none"} \cup Functions \cup SecondFunctions
          /\ prov[a].second # "replaced"
    /\ \A w \in WakeUpCalls :
          /\ prov[w.by].observer # w.observer
          /\ prov[w.observer].waitingOn = w.by
    /\ \A m, n \in 1..Len(resumes) :
          (resumes[m].p = resumes[n].p /\ resumes[m].continueAt = resumes[n].continueAt)
             => m = n

RECURSIVE Flatten(_)
\* The items of a sequence of batches, one batch after the other.
Flatten(batches) ==
    IF batches = <<>> THEN <<>>
    ELSE Head(batches).result.v \o Flatten(Tail(batches))

\* The items pop has returned so far, in the order of the calls of pop and
\* within a batch in the batch's order.
Popped == Flatten(pops)

\* How often an item is found in a sequence.
Occurrences(seq, item) == Cardinality({k \in 1..Len(seq) : seq[k] = item})

\* C31: push being called on several threads while the actor pops: an item
\* that was pushed is in the Batcher or in one batch that pop has returned,
\* once; once the Batcher is empty every item has been returned by exactly one
\* pop; and the items of one thread come out in the order that thread pushed
\* them, within a batch and from one batch to the next.
C31_EachItemPoppedOnceInOrder ==
    LET all == Popped \o bt.items.v IN
    /\ \A i \in 1..Len(pushed) : Occurrences(all, pushed[i]) = 1
    /\ Len(all) = Len(pushed)
    /\ bt.items.v = <<>> => \A i \in 1..Len(pushed) : Occurrences(Popped, pushed[i]) = 1
    /\ \A x, y \in 1..Len(all) :
          (x < y /\ all[x].by = all[y].by) => all[x].n < all[y].n

\* C31 happens: two threads have pushed in turn, pop has returned two batches
\* that both hold items of both threads, and the Batcher is empty.
C31_Witness ==
    /\ bt.items.v = <<>>
    /\ Len(pushed) = MaxPushes
    /\ \E m, n \in 1..Len(pops) :
          /\ m < n
          /\ \A k \in {m, n} : {pops[k].result.v[j].by : j \in 1..Len(pops[k].result.v)} = Threads

\* The calls of the methods that wait for _readyToUse.
GatedJobs ==
    {Job(m, z, k) : m \in {"_send", "_simulateReceived"}, z \in MessageSizes, k \in 1..MaxSends}
    \cup {Job("_close", st, 0) : st \in CloseStatuses}

\* The call is on the mailbox of socket s or held for it by a timer.
PendingCall(s, job) ==
    \/ \E k \in 1..Len(calls[s]) : calls[s][k] = job
    \/ \E i \in DOMAIN timers : timers[i].to = s /\ timers[i].job = job

\* The mailbox of socket s runs the call at its head.
RunsHead(s) == calls[s] # <<>> /\ Len(calls'[s]) = Len(calls[s]) - 1

\* C32: a socket that is not ready (its _connectToPeer has not gone through
\* with a delegate installed) relays no message to its peer, gives no message
\* and no close event to its delegate and does not close; a _send,
\* _simulateReceived or _close it runs meanwhile is put off by
\* _rescheduleLatency with the same arguments and changes nothing else; and a
\* call of these methods that is pending on a socket that is ready is
\* eventually run to its end.
C32_GatedUntilReady ==
    /\ [][\A s \in Sockets :
            /\ (\E job \in GatedJobs :
                   /\ job.job = "_simulateReceived"
                   /\ ~PendingCall(OtherSocket(s), job)
                   /\ PendingCall(OtherSocket(s), job)') => ws[s].readyToUse
            /\ inbox'[s] # inbox[s] => ws[s].readyToUse
            /\ (net'.closes[s] # net.closes[s] \/ (ws[s].isOpen /\ ~ws'[s].isOpen))
                  => ws[s].readyToUse
            /\ (RunsHead(s) /\ Head(calls[s]) \in GatedJobs /\ ~ws[s].readyToUse)
                  => /\ timers' = Append(timers, [to |-> s, wait |-> RescheduleLatency,
                                                  job |-> Head(calls[s])])
                     /\ UNCHANGED <<ws, inbox, sends>>
                     /\ net'.closes = net.closes]_vars
    /\ \A s \in Sockets : \A job \in GatedJobs :
          (PendingCall(s, job) /\ ws[s].readyToUse) ~> ~PendingCall(s, job)

====
